---------------------------- MODULE Spec2Model ----------------------------
(***************************************************************************)
(* Model of the entity-lifecycle and collision core of "Atrapa las Almas": *)
(* ObjectPool / SoulPool, Soul, SoulManager, CollisionDetector and the     *)
(* GameEngine state machine.                                               *)
(*                                                                         *)
(* Units.  Time is counted in ticks of 1/TicksPerSecond seconds, lengths   *)
(* in tenths of a world unit, a spawn rate in tenths of a soul per second. *)
(* Soul.collectionAnimation is the code's Number: an IEEE 754 binary64     *)
(* value, held as a whole number of 2^-56 in two limbs, and                *)
(* "collectionAnimation -= deltaTime * 4.0" is computed as the code        *)
(* computes it, rounded to 53 significant bits (nearest, ties to even).    *)
(* The deltaTime of k ticks is the Number k / TicksPerSecond.              *)
(*                                                                         *)
(* Every operation of the code is an operator from a state record to a     *)
(* state record (the record holds one field per program field), so that a  *)
(* handler that calls other methods is the composition of their operators. *)
(* Two fields of the record are outputs and no program state: "ret" holds  *)
(* the value the last call returned, "frame" what the last                 *)
(* GameEngine.update did.                                                  *)
(***************************************************************************)
EXTENDS Integers, Sequences, FiniteSets, TLC

VARIABLES
    \* ObjectPool
    pool,             \* ObjectPool.pool: the idle list (push / pop at the end)
    activeObjects,    \* ObjectPool.activeObjects
    poolBuilt,        \* history: the objects the pool's createFn has constructed
    \* the Soul instances ever constructed, by object identity 1..Len(heap)
    heap,
    \* SoulManager
    activeSouls,      \* Map id -> Soul, as the sequence of its entries
    nextSoulId,
    maxSouls,
    spawnRate,
    spawnTimer,
    spawnInterval,
    isSpawningPaused,
    soulPool,         \* "SoulPool" while the manager holds its pool, then null
    fieldSize,        \* the half-extents x and z of the spawn area
    spawnHeight,      \* the band min .. max of the spawn heights
    intervals,        \* the intervals of the engine that are installed
    timerDisplay,     \* the value last given to uiManager.updateTimer
    disposed,         \* TRUE once dispose() has cleared the system references
    \* APIService
    api,              \* the retryOperation call in progress
    \* LeaderboardManager
    leaderboard,      \* its fields, the cached board, the log of the flow
    \* history
    cadence,          \* the spawns of SoulManager.update and the time between
    \* the SoulManager of src/components/SoulManager.js
    arrayManager,
    \* CollisionDetector
    skullCollisionRadius,
    collisionCallbacks, \* the registered callbacks, in registration order
    \* PlayerController
    playerPosition,
    \* GameEngine
    currentState,
    score,
    gameTime,
    timeRemaining,
    deltaTime,
    gameTimer,        \* TRUE while the display-refresh interval is installed
    config,
    \* history
    events,           \* soul id -> number of collision events emitted for it
    calls,            \* endGame / showGameOverUI calls since the last startGame
    callbackCalls,    \* collision callback invocations so far
    run,              \* the Soul.update calls since the last startCollection
    soulPosition      \* << p >> for the Numbers p that the last Soul.update
                      \* of a free soul left in the first Soul's position,
                      \* << >> when the position was set since

vars == << pool, activeObjects, poolBuilt, heap, activeSouls, nextSoulId,
           maxSouls, spawnRate, spawnTimer, spawnInterval, isSpawningPaused,
           soulPool, skullCollisionRadius, playerPosition, currentState, score,
           gameTime, timeRemaining, deltaTime, gameTimer, config, events,
           calls, run, soulPosition, collisionCallbacks, callbackCalls,
           fieldSize, spawnHeight, intervals, timerDisplay, disposed, api, leaderboard, cadence, arrayManager >>

---------------------------------------------------------------------------
(* Units and bounds *)

TicksPerSecond == 60

\* bounds of the model
MaxObjects == 3       \* Soul instances ever constructed
MaxSoulIds == 3       \* soul ids ever handed out
MaxDt == 2            \* largest deltaTime, in ticks, given to an update
MaxSpawnTimer == 8    \* cap on the spawn timer, in ticks

NoId == -1            \* the null id of a pooled Soul
NoRate == -1          \* the null spawnRate argument of resumeSpawning
NoObj == 0            \* the null returned in place of a Soul
Null == "null"        \* what a call that returns nothing leaves in ret

Min(a, b) == IF a < b THEN a ELSE b
Max(a, b) == IF a > b THEN a ELSE b

Vec(x, y, z) == [x |-> x, y |-> y, z |-> z]
VecAdd(p, q) == Vec(p.x + q.x, p.y + q.y, p.z + q.z)

\* largest r with r * r <= n
RECURSIVE IsqrtFrom(_, _)
IsqrtFrom(n, r) == IF (r + 1) * (r + 1) > n THEN r ELSE IsqrtFrom(n, r + 1)
Isqrt(n) == IsqrtFrom(n, 0)

\* THREE.Vector3.distanceTo, squared (distances are compared, never printed:
\* d <= r is decided as d^2 <= r^2)
Dist2(p, q) ==
    (p.x - q.x) * (p.x - q.x) + (p.y - q.y) * (p.y - q.y)
        + (p.z - q.z) * (p.z - q.z)

---------------------------------------------------------------------------
(* The Numbers of Soul.collectionAnimation: binary64 values that are whole *)
(* multiples of 2^-56, as [hi, lo] for hi * 2^28 + lo.  2^53 of these      *)
(* units is 2^-3: a value below it is held exactly, a larger one is        *)
(* rounded to 53 significant bits.                                         *)

Limb == 2^28
HalfLimb == 2^14

Dbl(hi, lo) == [hi |-> hi, lo |-> lo]
DblZero == Dbl(0, 0)
DblOne == Dbl(Limb, 0)

DblLess(a, b) == a.hi < b.hi \/ (a.hi = b.hi /\ a.lo < b.lo)
DblLeq(a, b) == ~DblLess(b, a)

\* the number r of low bits a value with this high limb cannot hold: the
\* value is below 2^(53 + r) units
RECURSIVE RoundBitsFrom(_, _)
RoundBitsFrom(hi, r) ==
    IF hi < 2^(25 + r) THEN r ELSE RoundBitsFrom(hi, r + 1)

\* hi * 2^28 + lo plus a fraction of a unit (rest: 0 none, 1 below a half,
\* 2 a half, 3 above a half), rounded to 53 significant bits, to nearest,
\* ties to even
Round53(hi, lo, rest) ==
    LET unit == 2^RoundBitsFrom(hi, 0)
        rem  == lo % unit
        half == unit \div 2
        odd  == (lo \div unit) % 2 = 1
        up   == IF unit = 1
                  THEN rest = 3 \/ (rest = 2 /\ odd)
                  ELSE rem > half \/ (rem = half /\ (rest # 0 \/ odd))
        lo2  == lo - rem + (IF up THEN unit ELSE 0)
    IN  IF lo2 = Limb THEN Dbl(hi + 1, 0) ELSE Dbl(hi, lo2)

\* a - b for a > b, rounded
DblSub(a, b) ==
    IF a.lo >= b.lo
      THEN Round53(a.hi - b.hi, a.lo - b.lo, 0)
      ELSE Round53(a.hi - b.hi - 1, a.lo + Limb - b.lo, 0)

\* a + b, exact (in the limbs, not rounded)
DblAdd(a, b) ==
    IF a.lo + b.lo >= Limb
      THEN Dbl(a.hi + b.hi + 1, a.lo + b.lo - Limb)
      ELSE Dbl(a.hi + b.hi, a.lo + b.lo)

\* the next 14 bits of rem / TicksPerSecond, and what remains
DivDigit(rem) == (rem * HalfLimb) \div TicksPerSecond
DivRest(rem) == (rem * HalfLimb) % TicksPerSecond

\* deltaTime * 4.0 for the deltaTime of dt ticks: the Number
\* dt / TicksPerSecond (the quotient, rounded), times 4 (exact)
TimesFour(dt) ==
    LET r0 == (4 * dt) % TicksPerSecond
        r1 == DivRest(r0)
        r2 == DivRest(r1)
        r3 == DivRest(r2)
        r4 == DivRest(r3)
    IN  Round53(((4 * dt) \div TicksPerSecond) * Limb
                    + DivDigit(r0) * HalfLimb + DivDigit(r1),
                DivDigit(r2) * HalfLimb + DivDigit(r3),
                IF r4 = 0 THEN 0
                ELSE IF 2 * r4 < TicksPerSecond THEN 1
                ELSE IF 2 * r4 = TicksPerSecond THEN 2 ELSE 3)

---------------------------------------------------------------------------
(* The Numbers of Soul.position: binary64 values, held exactly as          *)
(* [neg, m, e] for (-1)^neg * m * 2^e.  m is a natural number of at most   *)
(* 53 bits (54 for a power of two reached by rounding up), written in base *)
(* 2^14 with the least significant digit first; <<>> is 0.  An operation   *)
(* computes the exact result and rounds it to 53 significant bits, ties to *)
(* even, as ECMAScript prescribes for *, +, / and Math.sqrt.  The values   *)
(* of a position stay far from the overflow and underflow thresholds.      *)

\* the number of bits of n
RECURSIVE Bits(_)
Bits(n) == IF n = 0 THEN 0 ELSE 1 + Bits(n \div 2)

\* the bits of a digit, and of the significand of a Number
LimbBits == Bits(HalfLimb) - 1
Significand == 53

RECURSIVE BigOf(_)
BigOf(n) == IF n = 0 THEN <<>> ELSE <<n % HalfLimb>> \o BigOf(n \div HalfLimb)

RECURSIVE BigTrim(_)
BigTrim(a) ==
    IF a # <<>> /\ a[Len(a)] = 0 THEN BigTrim(SubSeq(a, 1, Len(a) - 1)) ELSE a

\* a * k + c for a digit k
RECURSIVE BigMulC(_, _, _)
BigMulC(a, k, c) ==
    IF a = <<>>
      THEN BigOf(c)
      ELSE LET t == Head(a) * k + c
           IN  <<t % HalfLimb>> \o BigMulC(Tail(a), k, t \div HalfLimb)

\* a + b + c
RECURSIVE BigAddC(_, _, _)
BigAddC(a, b, c) ==
    IF a = <<>> THEN BigMulC(b, 1, c)
    ELSE IF b = <<>> THEN BigMulC(a, 1, c)
    ELSE LET t == Head(a) + Head(b) + c
         IN  <<t % HalfLimb>> \o BigAddC(Tail(a), Tail(b), t \div HalfLimb)

BigAdd(a, b) == BigAddC(a, b, 0)

\* a - b - c for a >= b + c
RECURSIVE BigSubC(_, _, _)
BigSubC(a, b, c) ==
    IF a = <<>>
      THEN <<>>
      ELSE LET t == Head(a) - (IF b = <<>> THEN 0 ELSE Head(b)) - c
           IN  <<t % HalfLimb>>
                   \o BigSubC(Tail(a), IF b = <<>> THEN b ELSE Tail(b),
                              IF t < 0 THEN 1 ELSE 0)

BigSub(a, b) == BigTrim(BigSubC(a, b, 0))

RECURSIVE BigLessFrom(_, _, _)
BigLessFrom(a, b, i) ==
    i > 0 /\ (a[i] < b[i] \/ (a[i] = b[i] /\ BigLessFrom(a, b, i - 1)))

BigLess(a, b) ==
    Len(a) < Len(b) \/ (Len(a) = Len(b) /\ BigLessFrom(a, b, Len(a)))

RECURSIVE BigMulFrom(_, _)
BigMulFrom(a, b) ==
    IF b = <<>>
      THEN <<>>
      ELSE BigAdd(BigMulC(a, Head(b), 0), <<0>> \o BigMulFrom(a, Tail(b)))

BigMul(a, b) == BigTrim(BigMulFrom(a, b))

\* a * 2^n
BigShl(a, n) ==
    BigTrim([i \in 1..(n \div LimbBits) |-> 0]
                \o BigMulC(a, 2^(n % LimbBits), 0))

\* quotient and remainder of a by a digit k
RECURSIVE BigDivC(_, _)
BigDivC(a, k) ==
    IF a = <<>>
      THEN [q |-> <<>>, r |-> 0]
      ELSE LET t   == BigDivC(Tail(a), k)
               cur == t.r * HalfLimb + Head(a)
           IN  [q |-> <<cur \div k>> \o t.q, r |-> cur % k]

\* a \div 2^n
BigShr(a, n) ==
    BigTrim(BigDivC(SubSeq(a, Min(Len(a), n \div LimbBits) + 1, Len(a)),
                    2^(n % LimbBits)).q)

\* the number of bits of a
BigBits(a) ==
    IF a = <<>> THEN 0 ELSE LimbBits * (Len(a) - 1) + Bits(a[Len(a)])

\* bit i of a, bit 0 the least significant
BigBit(a, i) ==
    IF i \div LimbBits >= Len(a)
      THEN 0
      ELSE (a[i \div LimbBits + 1] \div 2^(i % LimbBits)) % 2

\* long division of a by b.  s = [q, r] is the quotient and the remainder of
\* the bits of a above bit i; BigDivFrom brings down the bits i .. stop
RECURSIVE BigDivFrom(_, _, _, _, _)
BigDivFrom(a, b, i, stop, s) ==
    IF i < stop
      THEN s
      ELSE LET r1 == BigMulC(s.r, 2, BigBit(a, i))
           IN  IF BigLess(r1, b)
                 THEN BigDivFrom(a, b, i - 1, stop,
                                 [q |-> BigMulC(s.q, 2, 0), r |-> r1])
                 ELSE BigDivFrom(a, b, i - 1, stop,
                                 [q |-> BigMulC(s.q, 2, 1),
                                  r |-> BigSub(r1, b)])

RECURSIVE BigDivDigits(_, _, _, _)
BigDivDigits(a, b, j, s) ==
    IF j = 0
      THEN s
      ELSE BigDivDigits(a, b, j - 1,
                        BigDivFrom(a, b, LimbBits * j - 1, LimbBits * (j - 1),
                                   s))

\* quotient and remainder of a by b
BigDiv(a, b) == BigDivDigits(a, b, Len(a), [q |-> <<>>, r |-> <<>>])

\* largest r with r * r <= a.  r holds the bits of the root above bit i;
\* BigSqrtFrom settles the bits i .. stop
RECURSIVE BigSqrtFrom(_, _, _, _)
BigSqrtFrom(a, i, stop, r) ==
    IF i < stop
      THEN r
      ELSE LET t == BigAdd(r, BigShl(<<1>>, i))
           IN  IF BigLess(a, BigMul(t, t))
                 THEN BigSqrtFrom(a, i - 1, stop, r)
                 ELSE BigSqrtFrom(a, i - 1, stop, t)

RECURSIVE BigSqrtDigits(_, _, _)
BigSqrtDigits(a, j, r) ==
    IF j = 0
      THEN r
      ELSE BigSqrtDigits(a, j - 1,
                         BigSqrtFrom(a, LimbBits * j - 1, LimbBits * (j - 1),
                                     r))

BigSqrt(a) == BigSqrtDigits(a, (Len(a) + 1) \div 2, <<>>)

Num(neg, m, e) == [neg |-> neg, m |-> m, e |-> e]

\* the Number of a whole number n
NumOf(n) == Num(n < 0, BigOf(IF n < 0 THEN -n ELSE n), 0)

\* round to nearest, ties to even: the Number of (-1)^neg * (m + f) * 2^e
\* for some 0 <= f < 1 that is positive exactly when inexact holds
NumRound(neg, m, e, inexact) ==
    LET sh   == BigBits(m) - Significand
        hi   == BigShr(m, sh)
        lo   == BigSub(m, BigShl(hi, sh))
        half == BigShl(<<1>>, sh - 1)
        up   == BigLess(half, lo)
                    \/ (lo = half /\ (inexact \/ hi[1] % 2 = 1))
    IN  IF sh <= 0
          THEN Num(neg, m, e)
          ELSE Num(neg, IF up THEN BigAdd(hi, <<1>>) ELSE hi, e + sh)

\* a * b
NumMul(a, b) == NumRound(a.neg # b.neg, BigMul(a.m, b.m), a.e + b.e, FALSE)

\* a + b for a and b of one sign
NumAdd(a, b) ==
    LET e == Min(a.e, b.e)
    IN  NumRound(a.neg, BigAdd(BigShl(a.m, a.e - e), BigShl(b.m, b.e - e)),
                 e, FALSE)

\* a / b for b # 0
NumDiv(a, b) ==
    LET k == Max(0, Significand + 3 + BigBits(b.m) - BigBits(a.m))
        d == BigDiv(BigShl(a.m, k), b.m)
    IN  NumRound(a.neg # b.neg, d.q, a.e - b.e - k, d.r # <<>>)

\* Math.sqrt(a) for a >= 0
NumSqrt(a) ==
    LET k0 == Max(0, 2 * Significand + 4 - BigBits(a.m))
        k  == IF (a.e - k0) % 2 = 0 THEN k0 ELSE k0 + 1
        n  == BigShl(a.m, k)
        r  == BigSqrt(n)
    IN  NumRound(FALSE, r, (a.e - k) \div 2, BigMul(r, r) # n)

\* a < b
NumLess(a, b) ==
    LET e  == Min(a.e, b.e)
        am == BigShl(a.m, a.e - e)
        bm == BigShl(b.m, b.e - e)
    IN  IF a.neg = b.neg
          THEN IF a.neg THEN BigLess(bm, am) ELSE BigLess(am, bm)
          ELSE a.neg /\ (am # <<>> \/ bm # <<>>)

\* the Number nearest to k / 10: what a decimal literal or a sum of such
\* Numbers comes to
NumTenths(k) == NumDiv(NumOf(k), NumOf(10))

---------------------------------------------------------------------------
(* Soul (src/src/components/Soul.js).  A soul is a record; its mesh always *)
(* exists once constructed through the pool's createFn or with an id.      *)

\* new Soul(id, position): constructor
Soul_new(id, position) ==
    [ id |-> id,
      position |-> position,
      initialPosition |-> position,
      isCollected |-> FALSE,
      collectionAnimation |-> DblZero ]

\* Soul.setPosition
Soul_setPosition(soul, position) ==
    [soul EXCEPT !.position = position, !.initialPosition = position]

\* Soul.getCollisionRadius: 0.5
Soul_getCollisionRadius == 5

\* Soul.startCollection without isCollected = true
Soul_startCollection_NoFlag(soul) ==
    IF soul.isCollected
      THEN soul
      ELSE [soul EXCEPT !.collectionAnimation = DblOne]

\* Soul.startCollection
Soul_startCollection(soul) ==
    IF soul.isCollected
      THEN soul
      ELSE [soul EXCEPT !.isCollected = TRUE,
                        !.collectionAnimation = DblOne]

\* Soul.updateCollectionAnimation: collectionAnimation -= deltaTime * 4.0,
\* floored at 0
Soul_updateCollectionAnimation(soul, dt) ==
    [soul EXCEPT !.collectionAnimation =
        IF DblLeq(@, TimesFour(dt)) THEN DblZero ELSE DblSub(@, TimesFour(dt))]

\* Soul.isCollectionComplete
Soul_isCollectionComplete(soul) ==
    soul.isCollected /\ DblLeq(soul.collectionAnimation, DblZero)

\* the bounds Soul.update keeps: maxDistance 9.0 in the XZ plane, y in
\* [0.5, 6.0]
SoulMaxDistance == 90
SoulMinY == 5
SoulMaxY == 60

\* the clamping at the end of Soul.update (radial in XZ, then vertical), on
\* positions in tenths: a coordinate that is rescaled is cut to the tenth
\* toward zero, |x| * 9.0 / d being the root of x^2 * 81 / d^2
Soul_clamp(p) ==
    LET d2 == p.x * p.x + p.z * p.z
        m2 == SoulMaxDistance * SoulMaxDistance
        sx == Isqrt((p.x * p.x * m2) \div d2)
        sz == Isqrt((p.z * p.z * m2) \div d2)
        q  == IF d2 > m2
                THEN Vec(IF p.x < 0 THEN -sx ELSE sx, p.y,
                         IF p.z < 0 THEN -sz ELSE sz)
                ELSE p
    IN  Vec(q.x, Max(SoulMinY, Min(SoulMaxY, q.y)), q.z)

NumMaxDistance == NumOf(9)
NumMinY == Num(FALSE, <<1>>, -1)
NumMaxY == NumOf(6)

\* a position in tenths as the Numbers nearest to it
NumVec(p) == Vec(NumTenths(p.x), NumTenths(p.y), NumTenths(p.z))

\* the clamping without the radial part
Soul_clampNumbers_VerticalOnly(p) ==
    LET y == IF NumLess(NumMaxY, p.y) THEN NumMaxY ELSE p.y
    IN  Vec(p.x, IF NumLess(y, NumMinY) THEN NumMinY ELSE y, p.z)

\* the clamping at the end of Soul.update as the code computes it, on
\* Numbers: distanceFromCenter = Math.sqrt(x * x + z * z); beyond
\* maxDistance, scale = maxDistance / distanceFromCenter multiplies x and z;
\* then y = Math.max(0.5, Math.min(6.0, y))
Soul_clampNumbers(p) ==
    LET distanceFromCenter ==
            NumSqrt(NumAdd(NumMul(p.x, p.x), NumMul(p.z, p.z)))
        scale == NumDiv(NumMaxDistance, distanceFromCenter)
        q == IF NumLess(NumMaxDistance, distanceFromCenter)
               THEN Vec(NumMul(p.x, scale), p.y, NumMul(p.z, scale))
               ELSE p
        y == IF NumLess(NumMaxY, q.y) THEN NumMaxY ELSE q.y
    IN  Vec(q.x, IF NumLess(y, NumMinY) THEN NumMinY ELSE y, q.z)

\* Soul.update with the return on isCollected placed before the collection
\* animation
Soul_update_ReturnFirst(soul, dt, mv) ==
    IF soul.isCollected
      THEN soul
      ELSE [soul EXCEPT !.position = Soul_clamp(VecAdd(soul.initialPosition, mv))]

\* Soul.update(deltaTime).  mv is the sum of the drift, float and erratic
\* offsets the frame computes from its phases and from Math.random.
Soul_update(soul, dt, mv) ==
    LET s1 == IF DblLess(DblZero, soul.collectionAnimation)
                THEN Soul_updateCollectionAnimation(soul, dt)
                ELSE soul
    IN  IF s1.isCollected
          THEN s1
          ELSE [s1 EXCEPT !.position = Soul_clamp(VecAdd(s1.initialPosition, mv))]

\* Soul.reset (the motion parameters it re-rolls are inputs of Soul_update)
Soul_reset(soul) ==
    [soul EXCEPT !.isCollected = FALSE, !.collectionAnimation = DblZero]

---------------------------------------------------------------------------
(* ObjectPool and SoulPool (src/unnamed/part_004).  s is the state record. *)

\* createFn of SoulPool: new soulClass(null); soul.init()
SoulPool_createFn(s) ==
    [s EXCEPT !.heap = Append(@, Soul_new(NoId, Vec(0, 0, 0))),
              !.poolBuilt = @ \cup {Len(s.heap) + 1},
              !.ret = Len(s.heap) + 1]

\* ObjectPool.constructor: pre-populates the idle list
RECURSIVE ObjectPool_prepopulate(_, _)
ObjectPool_prepopulate(s, n) ==
    IF n = 0
      THEN s
      ELSE LET s1 == SoulPool_createFn(s)
           IN  ObjectPool_prepopulate([s1 EXCEPT !.pool = Append(@, s1.ret)],
                                      n - 1)

\* resetFn of SoulPool: soul.reset() (and removal of the mesh from the scene)
SoulPool_resetFn(s, obj) ==
    [s EXCEPT !.heap[obj] = Soul_reset(@)]

\* ObjectPool.acquire
ObjectPool_acquire(s) ==
    LET s1 == IF Len(s.pool) > 0
                THEN [s EXCEPT !.pool = SubSeq(@, 1, Len(@) - 1),
                               !.ret = s.pool[Len(s.pool)]]
                ELSE SoulPool_createFn(s)
    IN  [s1 EXCEPT !.activeObjects = @ \cup {s1.ret}]

\* ObjectPool.release without the activeObjects.has(obj) test: an object
\* the pool does not track as active is reset and pushed as well
ObjectPool_release_Unchecked(s, obj) ==
    LET s1 == [s EXCEPT !.activeObjects = @ \ {obj}]
        s2 == SoulPool_resetFn(s1, obj)
    IN  [s2 EXCEPT !.pool = Append(@, obj), !.ret = Null]

\* ObjectPool.release running the reset callback before the
\* activeObjects.has(obj) test
ObjectPool_release_ResetFirst(s, obj) ==
    LET s0 == SoulPool_resetFn(s, obj)
    IN  IF obj \notin s0.activeObjects
          THEN [s0 EXCEPT !.ret = Null]
          ELSE [s0 EXCEPT !.activeObjects = @ \ {obj},
                          !.pool = Append(@, obj), !.ret = Null]

\* ObjectPool.release
ObjectPool_release(s, obj) ==
    IF obj \notin s.activeObjects
      THEN [s EXCEPT !.ret = Null]
      ELSE LET s1 == [s EXCEPT !.activeObjects = @ \ {obj}]
               s2 == SoulPool_resetFn(s1, obj)
           IN  [s2 EXCEPT !.pool = Append(@, obj), !.ret = Null]

\* what a call leaves in ret when an exception propagates out of it
Thrown == "thrown"

\* ObjectPool.release when the reset callback throws: in soul.reset()
\* (afterReset FALSE, the soul is as it was) or after it, in
\* renderEngine.removeFromScene; the statements after the call of resetFn
\* do not run
ObjectPool_release_Throwing(s, obj, afterReset) ==
    IF obj \notin s.activeObjects
      THEN [s EXCEPT !.ret = Null]
      ELSE LET s1 == [s EXCEPT !.activeObjects = @ \ {obj}]
               s2 == IF afterReset THEN SoulPool_resetFn(s1, obj) ELSE s1
           IN  [s2 EXCEPT !.ret = Thrown]

\* SoulPool.acquireSoul(position)
SoulPool_acquireSoul(s, position) ==
    LET s1 == ObjectPool_acquire(s)
    IN  [s1 EXCEPT !.heap[s1.ret] = Soul_setPosition(@, position)]

\* SoulPool.releaseSoul(soul)
SoulPool_releaseSoul(s, obj) == ObjectPool_release(s, obj)

---------------------------------------------------------------------------
(* SoulManager (the pooled SoulManager, src/src/components/UIManager.js    *)
(* lines 1242-1544).                                                       *)

\* this.activeSouls = new Map(): the entries, in insertion order
Entry(id, obj) == [id |-> id, obj |-> obj]
MapHas(m, id) == \E i \in 1..Len(m) : m[i].id = id
MapGet(m, id) == m[CHOOSE i \in 1..Len(m) : m[i].id = id].obj
MapSet(m, id, obj) ==
    IF MapHas(m, id)
      THEN [i \in 1..Len(m) |-> IF m[i].id = id THEN Entry(id, obj) ELSE m[i]]
      ELSE Append(m, Entry(id, obj))
MapDelete(m, id) == SelectSeq(m, LAMBDA e : e.id # id)

\* spawnInterval = 1.0 / spawnRate, in ticks, for a rate in tenths of a
\* soul per second, rounded up to a whole tick: the spawn timer is a whole
\* number of ticks, so spawnTimer >= 1.0 / spawnRate iff spawnTimer >= this
IntervalOf(rate) == (10 * TicksPerSecond + rate - 1) \div rate

\* SoulManager.setMaxSouls
SoulManager_setMaxSouls(s, n) ==
    [s EXCEPT !.maxSouls = Max(1, n), !.ret = Null]

\* SoulManager.setFieldSize without the floors
SoulManager_setFieldSize_NoFloor(s, sizeX, sizeZ) ==
    [s EXCEPT !.fieldSize = [x |-> sizeX, z |-> sizeZ], !.ret = Null]

\* SoulManager.setFieldSize: the floor 1 is 10 tenths
SoulManager_setFieldSize(s, sizeX, sizeZ) ==
    [s EXCEPT !.fieldSize = [x |-> Max(10, sizeX), z |-> Max(10, sizeZ)],
              !.ret = Null]

\* SoulManager.setSpawnHeightRange, heights in tenths
SoulManager_setSpawnHeightRange(s, minHeight, maxHeight) ==
    [s EXCEPT !.spawnHeight = [min |-> Max(0, minHeight),
                               max |-> Max(minHeight + 5, maxHeight)],
              !.ret = Null]

\* the values of Math.random(), in fifths
Randoms == { 0, 2, 4 }

\* SoulManager.generateSpawnPosition when Math.random() returns rx / 5,
\* rz / 5 and ry / 5:
\* x = (random - 0.5) * fieldSize.x * 2, z likewise,
\* y = min + random * (max - min)
SoulManager_generateSpawnPosition(s, rx, ry, rz) ==
    Vec(((2 * rx - 5) * s.fieldSize.x) \div 5,
        s.spawnHeight.min
          + (ry * (s.spawnHeight.max - s.spawnHeight.min)) \div 5,
        ((2 * rz - 5) * s.fieldSize.z) \div 5)

\* SoulManager.setSpawnRate: the floor 0.1 is 1 tenth
SoulManager_setSpawnRate(s, rate) ==
    [s EXCEPT !.spawnRate = Max(1, rate),
              !.spawnInterval = IntervalOf(Max(1, rate)),
              !.ret = Null]

\* SoulManager.pauseSpawning
SoulManager_pauseSpawning(s) ==
    [s EXCEPT !.isSpawningPaused = TRUE, !.ret = Null]

\* SoulManager.resumeSpawning(spawnRate = null)
SoulManager_resumeSpawning(s, rate) ==
    LET s1 == [s EXCEPT !.isSpawningPaused = FALSE, !.ret = Null]
    IN  IF rate # NoRate THEN SoulManager_setSpawnRate(s1, rate) ELSE s1

\* SoulManager.spawnSoul without the activeSouls.size >= maxSouls test
SoulManager_spawnSoul_Uncapped(s, position) ==
    IF s.isSpawningPaused
      THEN [s EXCEPT !.ret = NoObj]
      ELSE LET s1  == SoulPool_acquireSoul(s, position)
               obj == s1.ret
           IN  [s1 EXCEPT !.heap[obj].id = s.nextSoulId,
                          !.nextSoulId = @ + 1,
                          !.activeSouls = MapSet(@, s.nextSoulId, obj)]

\* SoulManager.spawnSoul without the isSpawningPaused test
SoulManager_spawnSoul_WhilePaused(s, position) ==
    IF Len(s.activeSouls) >= s.maxSouls
      THEN [s EXCEPT !.ret = NoObj]
      ELSE LET s1  == SoulPool_acquireSoul(s, position)
               obj == s1.ret
           IN  [s1 EXCEPT !.heap[obj].id = s.nextSoulId,
                          !.nextSoulId = @ + 1,
                          !.activeSouls = MapSet(@, s.nextSoulId, obj)]

\* SoulManager.spawnSoul; position is what generateSpawnPosition returns
SoulManager_spawnSoul(s, position) ==
    IF Len(s.activeSouls) >= s.maxSouls \/ s.isSpawningPaused
      THEN [s EXCEPT !.ret = NoObj]
      ELSE LET s1  == SoulPool_acquireSoul(s, position)
               obj == s1.ret
           IN  [s1 EXCEPT !.heap[obj].id = s.nextSoulId,
                          !.nextSoulId = @ + 1,
                          !.activeSouls = MapSet(@, s.nextSoulId, obj)]

\* SoulManager.removeSoul
SoulManager_removeSoul(s, id) ==
    IF ~MapHas(s.activeSouls, id)
      THEN [s EXCEPT !.ret = Null]
      ELSE LET obj == MapGet(s.activeSouls, id)
           IN  SoulPool_releaseSoul(
                   [s EXCEPT !.activeSouls = MapDelete(@, id)], obj)

\* SoulManager.collectSoul without the soul.getIsCollected() test
SoulManager_collectSoul_Again(s, id) ==
    IF ~MapHas(s.activeSouls, id)
      THEN [s EXCEPT !.ret = FALSE]
      ELSE LET obj == MapGet(s.activeSouls, id)
           IN  [s EXCEPT !.heap[obj] = Soul_startCollection(@),
                         !.ret = TRUE]

\* SoulManager.collectSoul
SoulManager_collectSoul(s, id) ==
    IF ~MapHas(s.activeSouls, id)
      THEN [s EXCEPT !.ret = FALSE]
      ELSE LET obj == MapGet(s.activeSouls, id)
           IN  IF s.heap[obj].isCollected
                 THEN [s EXCEPT !.ret = FALSE]
                 ELSE [s EXCEPT !.heap[obj] = Soul_startCollection(@),
                                !.ret = TRUE]

\* the first loop of SoulManager.update: soul.update(deltaTime) on every
\* entry from the i-th on, in Map order
RECURSIVE SoulManager_updateSouls(_, _, _, _)
SoulManager_updateSouls(s, i, dt, mv) ==
    IF i > Len(s.activeSouls)
      THEN s
      ELSE LET obj == s.activeSouls[i].obj
           IN  SoulManager_updateSouls(
                   [s EXCEPT !.heap[obj] = Soul_update(@, dt, mv[obj])],
                   i + 1, dt, mv)

\* soulsToRemove of SoulManager.update
SoulsToRemove(s) ==
    LET done == SelectSeq(s.activeSouls,
                          LAMBDA e : Soul_isCollectionComplete(s.heap[e.obj]))
    IN  [i \in 1..Len(done) |-> done[i].id]

\* the second loop of SoulManager.update: removeSoul(id) for the ids listed
RECURSIVE SoulManager_removeAll(_, _)
SoulManager_removeAll(s, ids) ==
    IF ids = << >>
      THEN s
      ELSE SoulManager_removeAll(SoulManager_removeSoul(s, Head(ids)), Tail(ids))

\* the spawn step of SoulManager.update without spawnTimer = 0
SoulManager_spawnStep_NoReset(s, dt, position) ==
    IF s.isSpawningPaused
      THEN s
      ELSE LET s1 == [s EXCEPT !.spawnTimer = @ + dt]
           IN  IF s1.spawnTimer >= s1.spawnInterval
                    /\ Len(s1.activeSouls) < s1.maxSouls
                 THEN SoulManager_spawnSoul(s1, position)
                 ELSE s1

\* the spawn step of SoulManager.update
SoulManager_spawnStep(s, dt, position) ==
    IF s.isSpawningPaused
      THEN s
      ELSE LET s1 == [s EXCEPT !.spawnTimer = @ + dt]
           IN  IF s1.spawnTimer >= s1.spawnInterval
                    /\ Len(s1.activeSouls) < s1.maxSouls
                 THEN [SoulManager_spawnSoul(s1, position)
                          EXCEPT !.spawnTimer = 0]
                 ELSE s1

\* SoulManager.update returning at once while spawning is paused
SoulManager_update_PausedIdle(s, dt, position, mv) ==
    IF s.isSpawningPaused
      THEN [s EXCEPT !.ret = Null]
      ELSE LET s1 == SoulManager_spawnStep(s, dt, position)
               s2 == SoulManager_updateSouls(s1, 1, dt, mv)
               s3 == SoulManager_removeAll(s2, SoulsToRemove(s2))
           IN  [s3 EXCEPT !.ret = Null]

\* SoulManager.update(deltaTime)
SoulManager_update(s, dt, position, mv) ==
    LET s1 == SoulManager_spawnStep(s, dt, position)
        s2 == SoulManager_updateSouls(s1, 1, dt, mv)
        s3 == SoulManager_removeAll(s2, SoulsToRemove(s2))
    IN  [s3 EXCEPT !.ret = Null]

\* SoulManager.spawnSoulsAtPositions
RECURSIVE SoulManager_spawnSoulsAtPositions(_, _)
SoulManager_spawnSoulsAtPositions(s, positions) ==
    IF positions = << >> \/ Len(s.activeSouls) >= s.maxSouls
      THEN [s EXCEPT !.ret = Null]
      ELSE LET obj == Len(s.heap) + 1
               s1  == [s EXCEPT
                         !.heap = Append(@, Soul_new(s.nextSoulId,
                                                     Head(positions))),
                         !.nextSoulId = @ + 1,
                         !.activeSouls = MapSet(@, s.nextSoulId, obj)]
           IN  SoulManager_spawnSoulsAtPositions(s1, Tail(positions))

\* the loop of SoulManager.clearAllSouls: releaseSoul on every entry
RECURSIVE SoulManager_releaseEach(_, _)
SoulManager_releaseEach(s, i) ==
    IF i > Len(s.activeSouls)
      THEN s
      ELSE SoulManager_releaseEach(
               SoulPool_releaseSoul(s, s.activeSouls[i].obj), i + 1)

\* SoulManager.clearAllSouls
SoulManager_clearAllSouls(s) ==
    [SoulManager_releaseEach(s, 1) EXCEPT !.activeSouls = << >>,
                                          !.spawnTimer = 0,
                                          !.ret = Null]

\* ObjectPool.dispose: the idle and the active objects are disposed of and
\* both collections emptied
ObjectPool_dispose(s) ==
    [s EXCEPT !.pool = << >>, !.activeObjects = {}, !.ret = Null]

\* SoulManager.dispose
SoulManager_dispose(s) ==
    LET s1 == SoulManager_clearAllSouls(s)
        s2 == IF s1.soulPool # Null
                THEN [ObjectPool_dispose(s1) EXCEPT !.soulPool = Null]
                ELSE s1
    IN  [s2 EXCEPT !.nextSoulId = 0, !.ret = Null]

---------------------------------------------------------------------------
(* GameEngine, score and timer (src/src/engine/EnvironmentBuilder.js,      *)
(* lines 377-1125), and CollisionDetector                                  *)
(* (src/src/components/CollisionDetector.js).                              *)

\* GameEngine.incrementScore(points = 1)
GameEngine_incrementScore(s) == [s EXCEPT !.score = @ + 1]

\* GameEngine.handleSoulCollection, the callback initializeGameState adds
GameEngine_handleSoulCollection(s) ==
    IF s.currentState # "playing" THEN s ELSE GameEngine_incrementScore(s)

\* CollisionDetector.addCollisionCallback.  A callback is named by what it
\* does: "handleSoulCollection" is the GameEngine's, "throws" throws on
\* every event, "observer" returns without touching the game
CollisionDetector_addCollisionCallback(s, callback) ==
    [s EXCEPT !.collisionCallbacks = Append(@, callback), !.ret = Null]

\* CollisionDetector.removeCollisionCallback: the first occurrence goes
CollisionDetector_removeCollisionCallback(s, callback) ==
    LET cbs == s.collisionCallbacks
        at  == { i \in 1..Len(cbs) : cbs[i] = callback }
        i   == CHOOSE i \in at : \A j \in at : i <= j
    IN  [s EXCEPT !.collisionCallbacks =
                      IF at = {} THEN @
                      ELSE SubSeq(cbs, 1, i - 1) \o SubSeq(cbs, i + 1, Len(cbs)),
                  !.ret = Null]

\* callback(collisionData): the state it leaves when it returns
CallCallback(s, callback) ==
    IF callback = "handleSoulCollection"
      THEN GameEngine_handleSoulCollection(s)
      ELSE s

\* the loop of triggerCollisionCallbacks without the try / catch: the first
\* callback that throws ends the loop
RECURSIVE CollisionDetector_callEach_Uncaught(_, _)
CollisionDetector_callEach_Uncaught(s, callbacks) ==
    IF callbacks = << >>
      THEN s
      ELSE LET s1 == [s EXCEPT !.callbackCalls = @ + 1]
           IN  IF Head(callbacks) = "throws"
                 THEN s1
                 ELSE CollisionDetector_callEach_Uncaught(
                          CallCallback(s1, Head(callbacks)), Tail(callbacks))

\* the loop of triggerCollisionCallbacks: each callback is called in a try
\* block; what one throws is logged and the loop goes on
RECURSIVE CollisionDetector_callEach(_, _)
CollisionDetector_callEach(s, callbacks) ==
    IF callbacks = << >>
      THEN s
      ELSE LET s1 == [s EXCEPT !.callbackCalls = @ + 1]
           IN  CollisionDetector_callEach(
                   IF Head(callbacks) = "throws"
                     THEN s1
                     ELSE CallCallback(s1, Head(callbacks)),
                   Tail(callbacks))

\* CollisionDetector.triggerCollisionCallbacks with every callback
\* registered twice
CollisionDetector_triggerCollisionCallbacks_Twice(s, id) ==
    CollisionDetector_callEach([s EXCEPT !.events[id] = @ + 1],
                               s.collisionCallbacks \o s.collisionCallbacks)

\* CollisionDetector.triggerCollisionCallbacks for the event of soul id
CollisionDetector_triggerCollisionCallbacks(s, id) ==
    CollisionDetector_callEach([s EXCEPT !.events[id] = @ + 1],
                               s.collisionCallbacks)

\* the default broadPhaseRadius = 5.0
BroadPhaseRadius == 50

\* CollisionDetector.broadPhaseDetection without the distance test: every
\* soul that is not collected is a candidate
CollisionDetector_broadPhaseDetection_All(s, broadPhaseRadius) ==
    LET near == SelectSeq(s.activeSouls,
                    LAMBDA e : ~s.heap[e.obj].isCollected)
    IN  [i \in 1..Len(near) |-> near[i].obj]

\* CollisionDetector.broadPhaseDetection: the candidate souls, in Map order
CollisionDetector_broadPhaseDetection(s, broadPhaseRadius) ==
    LET near == SelectSeq(s.activeSouls,
                    LAMBDA e :
                        /\ ~s.heap[e.obj].isCollected
                        /\ Dist2(s.playerPosition, s.heap[e.obj].position)
                              <= broadPhaseRadius * broadPhaseRadius)
    IN  [i \in 1..Len(near) |-> near[i].obj]

\* the narrow-phase test of checkCollisionsOptimized:
\* distance <= skullCollisionRadius + soul.getCollisionRadius()
NarrowHit(s, obj) ==
    Dist2(s.playerPosition, s.heap[obj].position)
        <= (s.skullCollisionRadius + Soul_getCollisionRadius)
             * (s.skullCollisionRadius + Soul_getCollisionRadius)

\* the loop of checkCollisionsOptimized over the candidates; collected is
\* collectedSouls so far
RECURSIVE CollisionDetector_narrowPhase(_, _, _)
CollisionDetector_narrowPhase(s, candidates, collected) ==
    IF candidates = << >>
      THEN [s EXCEPT !.ret = collected]
      ELSE LET obj == Head(candidates)
               id  == s.heap[obj].id
           IN  IF ~NarrowHit(s, obj)
                 THEN CollisionDetector_narrowPhase(s, Tail(candidates),
                                                    collected)
                 ELSE LET s1 == SoulManager_collectSoul(s, id)
                      IN  IF s1.ret
                            THEN CollisionDetector_narrowPhase(
                                     CollisionDetector_triggerCollisionCallbacks(s1, id),
                                     Tail(candidates), Append(collected, id))
                            ELSE CollisionDetector_narrowPhase(
                                     s1, Tail(candidates), collected)

\* CollisionDetector.checkCollisionsOptimized
CollisionDetector_checkCollisionsOptimized(s) ==
    CollisionDetector_narrowPhase(
        s, CollisionDetector_broadPhaseDetection(s, BroadPhaseRadius), << >>)

\* the loop of checkCollisions over the entries of activeSouls with the
\* test distance < collisionDistance
RECURSIVE CollisionDetector_checkCollisions_StrictLoop(_, _, _)
CollisionDetector_checkCollisions_StrictLoop(s, entries, collected) ==
    IF entries = << >>
      THEN [s EXCEPT !.ret = collected]
      ELSE LET e == Head(entries)
           IN  IF \/ s.heap[e.obj].isCollected
                  \/ Dist2(s.playerPosition, s.heap[e.obj].position)
                        >= (s.skullCollisionRadius + Soul_getCollisionRadius)
                             * (s.skullCollisionRadius + Soul_getCollisionRadius)
                 THEN CollisionDetector_checkCollisions_StrictLoop(
                          s, Tail(entries), collected)
                 ELSE LET s1 == SoulManager_collectSoul(s, e.id)
                      IN  IF s1.ret
                            THEN CollisionDetector_checkCollisions_StrictLoop(
                                     CollisionDetector_triggerCollisionCallbacks(s1, e.id),
                                     Tail(entries), Append(collected, e.id))
                            ELSE CollisionDetector_checkCollisions_StrictLoop(
                                     s1, Tail(entries), collected)

\* CollisionDetector.checkCollisions with the test distance <
\* collisionDistance
CollisionDetector_checkCollisions_Strict(s) ==
    CollisionDetector_checkCollisions_StrictLoop(s, s.activeSouls, << >>)

\* the loop of checkCollisions over the entries [soulId, soul] of
\* activeSouls; collected is collectedSouls so far
RECURSIVE CollisionDetector_checkCollisionsLoop(_, _, _)
CollisionDetector_checkCollisionsLoop(s, entries, collected) ==
    IF entries = << >>
      THEN [s EXCEPT !.ret = collected]
      ELSE LET e == Head(entries)
           IN  IF s.heap[e.obj].isCollected \/ ~NarrowHit(s, e.obj)
                 THEN CollisionDetector_checkCollisionsLoop(
                          s, Tail(entries), collected)
                 ELSE LET s1 == SoulManager_collectSoul(s, e.id)
                      IN  IF s1.ret
                            THEN CollisionDetector_checkCollisionsLoop(
                                     CollisionDetector_triggerCollisionCallbacks(s1, e.id),
                                     Tail(entries), Append(collected, e.id))
                            ELSE CollisionDetector_checkCollisionsLoop(
                                     s1, Tail(entries), collected)

\* CollisionDetector.checkCollisions
CollisionDetector_checkCollisions(s) ==
    CollisionDetector_checkCollisionsLoop(s, s.activeSouls, << >>)

\* CollisionDetector.setSkullCollisionRadius: the floor 0.1 is 1 tenth
CollisionDetector_setSkullCollisionRadius(s, radius) ==
    [s EXCEPT !.skullCollisionRadius = Max(1, radius), !.ret = Null]

\* GameEngine.resetTimerAndScore
GameEngine_resetTimerAndScore(s) ==
    [s EXCEPT !.score = 0,
              !.timeRemaining = s.config.GAME_DURATION,
              !.gameTime = 0]

\* GameEngine.startTimer / stopTimer: the display-refresh interval
\* GameEngine.stopTimer: clearInterval(gameTimer) when gameTimer is set
GameEngine_stopTimer(s) ==
    IF s.gameTimer
      THEN [s EXCEPT !.gameTimer = FALSE, !.intervals = @ - 1]
      ELSE s

\* GameEngine.startTimer without the call of stopTimer
GameEngine_startTimer_NoStop(s) ==
    [s EXCEPT !.gameTimer = TRUE, !.intervals = @ + 1]

\* GameEngine.startTimer: stopTimer(), then gameTimer = setInterval(...)
GameEngine_startTimer(s) ==
    [GameEngine_stopTimer(s) EXCEPT !.gameTimer = TRUE, !.intervals = @ + 1]

\* no value has been given to uiManager.updateTimer
NoDisplay == -1

\* GameEngine.updateTimerDisplay, the callback of the interval
GameEngine_updateTimerDisplay(s) ==
    IF ~s.disposed /\ s.currentState = "playing"
      THEN [s EXCEPT !.timerDisplay = s.timeRemaining, !.ret = Null]
      ELSE [s EXCEPT !.ret = Null]

\* GameEngine.onEnterMenuState
GameEngine_onEnterMenuState(s) == SoulManager_pauseSpawning(s)

\* GameEngine.onEnterPlayingState
GameEngine_onEnterPlayingState(s) ==
    SoulManager_resumeSpawning(s, s.config.SOUL_SPAWN_RATE)

\* uiManager.showGameOverUI(getGameState()), counted in calls
ShowGameOverUI(s) == [s EXCEPT !.calls.showGameOverUI = @ + 1]

\* GameEngine.onEnterGameOverState
GameEngine_onEnterGameOverState(s) ==
    ShowGameOverUI(SoulManager_pauseSpawning(s))

\* GameEngine.changeState and handleStateChange
GameEngine_changeState(s, newState) ==
    IF s.currentState = newState
      THEN s
      ELSE LET s1 == [s EXCEPT !.currentState = newState]
           IN  CASE newState = "menu" -> GameEngine_onEnterMenuState(s1)
                 [] newState = "playing" -> GameEngine_onEnterPlayingState(s1)
                 [] newState = "game-over" -> GameEngine_onEnterGameOverState(s1)

\* PlayerController.reset: back to (0, 2.5, 0)
PlayerStart == Vec(0, 25, 0)
PlayerController_reset(s) == [s EXCEPT !.playerPosition = PlayerStart]

\* history of a game session, reset by startGame
NoCalls == [endGame |-> 0, showGameOverUI |-> 0]

\* GameEngine.startGame without soulManager.clearAllSouls()
GameEngine_startGame_KeepSouls(s) ==
    LET s1 == GameEngine_changeState(s, "playing")
        s2 == GameEngine_startTimer(
                  GameEngine_resetTimerAndScore([s1 EXCEPT !.gameTime = 0]))
        s3 == PlayerController_reset(s2)
        s4 == SoulManager_resumeSpawning(s3, s3.config.SOUL_SPAWN_RATE)
    IN  [s4 EXCEPT !.calls = NoCalls, !.ret = Null]

\* GameEngine.startGame
GameEngine_startGame(s) ==
    LET s1 == GameEngine_changeState(s, "playing")
        s2 == GameEngine_startTimer(
                  GameEngine_resetTimerAndScore([s1 EXCEPT !.gameTime = 0]))
        s3 == PlayerController_reset(s2)
        s4 == SoulManager_resumeSpawning(SoulManager_clearAllSouls(s3),
                                         s3.config.SOUL_SPAWN_RATE)
    IN  [s4 EXCEPT !.calls = NoCalls, !.ret = Null]

\* GameEngine.endGame
GameEngine_endGame(s) ==
    LET s1 == GameEngine_changeState(GameEngine_stopTimer(s), "game-over")
        s2 == ShowGameOverUI(SoulManager_pauseSpawning(s1))
    IN  [s2 EXCEPT !.calls.endGame = @ + 1, !.ret = Null]

\* GameEngine.startGame after dispose(): no system is referenced, so only
\* the engine's own fields and its interval change
GameEngine_startGame_Disposed(s) ==
    LET s1 == [s EXCEPT !.currentState = "playing", !.gameTime = 0]
        s2 == GameEngine_startTimer(GameEngine_resetTimerAndScore(s1))
    IN  [s2 EXCEPT !.calls = NoCalls, !.ret = Null]

\* GameEngine.endGame after dispose()
GameEngine_endGame_Disposed(s) ==
    [GameEngine_stopTimer(s) EXCEPT !.currentState = "game-over",
                                    !.calls.endGame = @ + 1, !.ret = Null]

\* GameEngine.dispose
GameEngine_dispose(s) ==
    [GameEngine_stopTimer(s) EXCEPT !.disposed = TRUE,
                                    !.currentState = "menu",
                                    !.gameTime = 0, !.deltaTime = 0,
                                    !.score = 0,
                                    !.timeRemaining = 60 * TicksPerSecond,
                                    !.ret = Null]

\* GameEngine.restartGame
GameEngine_restartGame(s) == GameEngine_startGame(s)

\* GameEngine.updateTimer without the floor at 0
GameEngine_updateTimer_NoFloor(s) ==
    IF s.currentState = "playing"
      THEN [s EXCEPT !.timeRemaining = s.config.GAME_DURATION - s.gameTime]
      ELSE s

\* GameEngine.updateTimer
GameEngine_updateTimer(s) ==
    IF s.currentState = "playing"
      THEN [s EXCEPT !.timeRemaining = Max(0, s.config.GAME_DURATION - s.gameTime)]
      ELSE s

\* GameEngine.addBonusTime, bonusSeconds in ticks
GameEngine_addBonusTime(s, bonusSeconds) ==
    [s EXCEPT !.timeRemaining = @ + bonusSeconds, !.ret = Null]

\* GameEngine.updateMenuState; moving says whether the input vector is not
\* zero
GameEngine_updateMenuState(s, moving) ==
    IF moving THEN GameEngine_startGame(s) ELSE s

\* GameEngine.updatePlayingState with the time-up test timeRemaining < 0
GameEngine_updatePlayingState_Late(s, player, position, mv) ==
    LET s1 == GameEngine_updateTimer([s EXCEPT !.gameTime = @ + s.deltaTime])
    IN  IF s1.timeRemaining < 0
          THEN GameEngine_endGame(s1)
          ELSE LET s2 == [s1 EXCEPT !.playerPosition = player]
                   s3 == SoulManager_update(s2, s2.deltaTime, position, mv)
                   s4 == CollisionDetector_checkCollisionsOptimized(s3)
               IN  [s4 EXCEPT !.frame.collected = s4.ret,
                              !.frame.checked = TRUE]

\* GameEngine.updatePlayingState with the collision check ahead of the soul
\* update
GameEngine_updatePlayingState_CheckFirst(s, player, position, mv) ==
    LET s1 == GameEngine_updateTimer([s EXCEPT !.gameTime = @ + s.deltaTime])
    IN  IF s1.timeRemaining <= 0
          THEN GameEngine_endGame(s1)
          ELSE LET s2 == [s1 EXCEPT !.playerPosition = player]
                   s3 == CollisionDetector_checkCollisionsOptimized(s2)
                   s4 == SoulManager_update(s3, s3.deltaTime, position, mv)
               IN  [s4 EXCEPT !.frame.collected = s3.ret,
                              !.frame.checked = TRUE]

\* GameEngine.updatePlayingState.  player is the avatar position after
\* playerController.move / update, position and mv are the inputs of
\* SoulManager.update.
GameEngine_updatePlayingState(s, player, position, mv) ==
    LET s1 == GameEngine_updateTimer([s EXCEPT !.gameTime = @ + s.deltaTime])
    IN  IF s1.timeRemaining <= 0
          THEN GameEngine_endGame(s1)
          ELSE LET s2 == [s1 EXCEPT !.playerPosition = player]
                   s3 == SoulManager_update(s2, s2.deltaTime, position, mv)
                   s4 == CollisionDetector_checkCollisionsOptimized(s3)
               IN  [s4 EXCEPT !.frame.collected = s4.ret,
                              !.frame.checked = TRUE]

\* GameEngine.updateGameOverState without soulManager.update
GameEngine_updateGameOverState_Frozen(s, position, mv) ==
    SoulManager_pauseSpawning(s)

\* GameEngine.updateGameOverState with the collision check of
\* updatePlayingState after the soul update
GameEngine_updateGameOverState_Check(s, position, mv) ==
    LET s1 == SoulManager_update(SoulManager_pauseSpawning(s), s.deltaTime,
                                 position, mv)
        s2 == CollisionDetector_checkCollisionsOptimized(s1)
    IN  [s2 EXCEPT !.frame.collected = s2.ret, !.frame.checked = TRUE]

\* GameEngine.updateGameOverState.  The InputManager of the repository has
\* no isRestartPressed: the call at the end of the handler throws, after
\* the soul update, and the frame changes nothing more.
GameEngine_updateGameOverState(s, position, mv) ==
    SoulManager_update(SoulManager_pauseSpawning(s), s.deltaTime, position, mv)

\* the frame clamp of GameEngine.update: Math.min(deltaTime, 1/30)
MaxFrameTicks == TicksPerSecond \div 30

\* history of a frame, reset when GameEngine.update starts
NewFrame(s) ==
    [ state |-> s.currentState, collected |-> << >>, checked |-> FALSE ]

\* GameEngine.update(currentTime) for a frame time of rawDt ticks
GameEngine_update(s, rawDt, moving, player, position, mv) ==
    LET s1 == [s EXCEPT !.deltaTime = Min(rawDt, MaxFrameTicks),
                        !.frame = NewFrame(s)]
        s2 == CASE s1.currentState = "menu" ->
                       GameEngine_updateMenuState(s1, moving)
                [] s1.currentState = "playing" ->
                       GameEngine_updatePlayingState(s1, player, position, mv)
                [] s1.currentState = "game-over" ->
                       GameEngine_updateGameOverState(s1, position, mv)
    IN  [s2 EXCEPT !.ret = Null]

---------------------------------------------------------------------------
(* APIService (src/unnamed/part_003): the retry wrapper around the two     *)
(* leaderboard requests.  An Error is a record of its name, its message    *)
(* its type and its retryable mark ("undefined" on an Error nothing has     *)
(* marked).                                                                *)

ApiError(name, message, type, retryable) ==
    [name |-> name, message |-> message, type |-> type,
     retryable |-> retryable]

\* String.prototype.includes on the messages that occur: the pairs of a
\* message and a pattern it contains
Substrings ==
    { << "Failed to fetch", "Failed to fetch" >>,
      << "HTTP 400: Bad Request", "HTTP 400" >>,
      << "HTTP 404: Not Found", "HTTP 404" >>,
      << "HTTP 429: Too Many Requests", "HTTP 429" >>,
      << "HTTP 500: Internal Server Error", "HTTP 500" >> }

Includes(message, pattern) == << message, pattern >> \in Substrings

\* what a request can come to: a response that is ok, a response that is
\* not (by its status), fetch rejecting, the abort at the timeout
Outcomes ==
    { "ok", "HTTP 400", "HTTP 404", "HTTP 429", "HTTP 500",
      "Failed to fetch", "abort" }

\* the Error that a request with this outcome throws inside the operation
RequestError(outcome) ==
    CASE outcome = "abort" ->
             ApiError("AbortError", "The operation was aborted", "undefined",
                      "undefined")
      [] outcome = "Failed to fetch" ->
             ApiError("TypeError", "Failed to fetch", "undefined",
                      "undefined")
      [] outcome = "HTTP 400" ->
             ApiError("Error", "HTTP 400: Bad Request", "undefined",
                      "undefined")
      [] outcome = "HTTP 404" ->
             ApiError("Error", "HTTP 404: Not Found", "undefined",
                      "undefined")
      [] outcome = "HTTP 429" ->
             ApiError("Error", "HTTP 429: Too Many Requests", "undefined",
                      "undefined")
      [] outcome = "HTTP 500" ->
             ApiError("Error", "HTTP 500: Internal Server Error", "undefined",
                      "undefined")

\* APIService.handleNetworkError: a new Error with a message for the user
\* and the retryable mark of its class
APIService_handleNetworkError(error) ==
    IF error.name = "AbortError"
      THEN ApiError("Error",
               "Request timed out. Please check your internet connection.",
               "timeout", TRUE)
    ELSE IF Includes(error.message, "Failed to fetch")
              \/ Includes(error.message, "NetworkError")
      THEN ApiError("Error",
               "Network error. Please check your internet connection.",
               "network", TRUE)
    ELSE IF Includes(error.message, "HTTP 404")
      THEN ApiError("Error",
               "Leaderboard service not found. Please try again later.",
               "not_found", FALSE)
    ELSE IF Includes(error.message, "HTTP 500")
              \/ Includes(error.message, "HTTP 502")
              \/ Includes(error.message, "HTTP 503")
      THEN ApiError("Error", "Server error. Please try again later.",
                    "server_error", TRUE)
    ELSE IF Includes(error.message, "HTTP 400")
      THEN ApiError("Error", "Invalid request. Please check your input.",
                    "client_error", FALSE)
    ELSE IF Includes(error.message, "HTTP 429")
      THEN ApiError("Error",
               "Too many requests. Please wait a moment and try again.",
               "rate_limit", TRUE)
    ELSE ApiError("Error", error.message, "unknown", TRUE)

\* the inputs of submitScore: a name and score it accepts, and two it
\* rejects before any request
SubmitInputs == { "valid", "invalid name", "negative score" }

\* [threw, error, posted]: APIService.getTopScores for a request outcome; the
\* catch block throws the Error as it caught it
APIService_getTopScores(outcome) ==
    IF outcome = "ok"
      THEN [threw |-> FALSE, posted |-> FALSE]
      ELSE [threw |-> TRUE, error |-> RequestError(outcome),
            posted |-> FALSE]

\* APIService.submitScore for an input and a request outcome: the input is
\* validated first; the catch block throws handleNetworkError(error)
APIService_submitScore(input, outcome) ==
    IF input = "invalid name"
      THEN [threw |-> TRUE, posted |-> FALSE,
            error |-> ApiError("Error",
                "Player name must be between 1 and 20 characters",
                "undefined", "undefined")]
    ELSE IF input = "negative score"
      THEN [threw |-> TRUE, posted |-> FALSE,
            error |-> ApiError("Error",
                "Score must be a non-negative number", "undefined",
                "undefined")]
    ELSE IF outcome = "ok"
      THEN [threw |-> FALSE, posted |-> TRUE]
      ELSE [threw |-> TRUE, posted |-> TRUE,
            error |-> APIService_handleNetworkError(RequestError(outcome))]

\* the operation that getTopScoresWithRetry / submitScoreWithRetry hand to
\* retryOperation
ApiOperation(operation, input, outcome) ==
    IF operation = "getTopScores"
      THEN APIService_getTopScores(outcome)
      ELSE APIService_submitScore(input, outcome)

\* the options of retryOperation: maxDelay = 10000 ms, backoffMultiplier = 2
MaxDelay == 10000

RECURSIVE Pow2(_)
Pow2(n) == IF n = 0 THEN 1 ELSE 2 * Pow2(n - 1)

\* the delay without the cap of maxDelay
BackoffOf_Uncapped(baseDelay, attempt) == baseDelay * Pow2(attempt)

\* Math.min(baseDelay * Math.pow(backoffMultiplier, attempt), maxDelay)
BackoffOf(baseDelay, attempt) == Min(baseDelay * Pow2(attempt), MaxDelay)

\* 0.5 + Math.random() * 0.5, in percent
Jitters == { 50, 75, 99 }

\* retryOperation before it is called
ApiIdle == [state |-> "idle"]

\* retryOperation(operation, maxRetries, { baseDelay }) up to its first await
APIService_retryOperation(operation, input, maxRetries, baseDelay) ==
    [ state |-> "attempting", operation |-> operation, input |-> input,
      maxRetries |-> maxRetries, baseDelay |-> baseDelay,
      attempt |-> 0, invoked |-> 0, posted |-> 0,
      outcome |-> "none", threw |-> FALSE,
      lastError |-> ApiError("none", "none", "undefined", "undefined"),
      delay |-> 0 ]

\* the operation settles: return await operation(), or the catch block up to
\* the await of the delay
APIService_attemptSettles(a, outcome, jitter) ==
    LET r  == ApiOperation(a.operation, a.input, outcome)
        a1 == [a EXCEPT !.invoked = @ + 1,
                        !.posted = @ + (IF r.posted THEN 1 ELSE 0),
                        !.outcome = outcome, !.threw = r.threw]
        lastError == APIService_handleNetworkError(r.error)
    IN  IF ~r.threw
          THEN [a1 EXCEPT !.state = "resolved"]
          ELSE LET a2 == [a1 EXCEPT !.lastError = lastError]
               IN  IF ~lastError.retryable
                     THEN [a2 EXCEPT !.state = "rejected"]
                   ELSE IF a.attempt = a.maxRetries
                     THEN [a2 EXCEPT !.state = "rejected"]
                   ELSE [a2 EXCEPT
                           !.state = "waiting",
                           !.delay = (BackoffOf(a.baseDelay, a.attempt)
                                          * jitter) \div 100]

\* the delay has passed: attempt++ and the loop test
APIService_delayPassed(a) ==
    [a EXCEPT !.state = "attempting", !.attempt = @ + 1, !.delay = 0]

---------------------------------------------------------------------------
(* LeaderboardManager (src/engine/LeaderboardManager.js) with the          *)
(* APIService calls it makes.  A board is the sequence of the scores the   *)
(* server lists, highest first.  The log is the sequence of the requests   *)
(* sent and the modals shown since the flow's last submitScore began.      *)

\* this.retryAttempts and the default baseDelay of retryOperation
RetryAttempts == 1

BaseDelay == 1000

\* the size of the board the server keeps
TopCount == 10

\* a call of retryOperation(operation) with the defaults, run to its end;
\* outcomes are those of its first and second attempt
APIService_withRetry(operation, input, outcomes) ==
    LET a0 == APIService_retryOperation(operation, input, RetryAttempts,
                                        BaseDelay)
        a1 == APIService_attemptSettles(a0, outcomes[1], 50)
    IN  IF a1.state = "waiting"
          THEN APIService_attemptSettles(APIService_delayPassed(a1),
                                         outcomes[2], 50)
          ELSE a1

\* n times the event e
Events(n, e) == [i \in 1 .. n |-> e]

\* APIService.getTopScoresWithCaching when sessionStorage holds cache and
\* the server lists board: what it returns or throws, the requests it sent
\* and what sessionStorage holds after it
APIService_getTopScoresWithCaching(cache, outcomes, board) ==
    LET a == APIService_withRetry("getTopScores", "valid", outcomes)
    IN  IF a.state = "resolved"
          THEN [threw |-> FALSE, scores |-> board, requests |-> a.invoked,
                cache |-> IF Len(board) > 0 THEN board ELSE cache]
        ELSE IF Len(cache) > 0
          THEN [threw |-> FALSE, scores |-> cache, requests |-> a.invoked,
                cache |-> cache]
        ELSE [threw |-> TRUE, scores |-> << >>, requests |-> a.invoked,
              cache |-> cache, error |-> a.lastError]

\* LeaderboardManager.doesPlayerQualify with >= for >
LeaderboardManager_doesPlayerQualify_OrEqual(playerScore, topScores) ==
    IF Len(topScores) < TopCount
      THEN TRUE
      ELSE playerScore >= topScores[Len(topScores)]

\* LeaderboardManager.doesPlayerQualify
LeaderboardManager_doesPlayerQualify(playerScore, topScores) ==
    IF Len(topScores) < TopCount
      THEN TRUE
      ELSE playerScore > topScores[Len(topScores)]

\* LeaderboardManager.shouldShowRetryForError
LeaderboardManager_shouldShowRetryForError(error) ==
    IF error.type \in { "client_error", "not_found" }
      THEN FALSE
      ELSE \/ error.retryable = TRUE
           \/ error.type \in { "network", "timeout", "server_error",
                               "rate_limit" }

\* showLeaderboardModal, from submitScore or showLeaderboardWithoutSubmission
\* (gameEngine is null: nothing calls setGameEngine)
LeaderboardManager_showLeaderboard(l) ==
    [l EXCEPT !.log = Append(@, "showLeaderboardModal"), !.modal = "none"]

\* LeaderboardManager.showOfflineLeaderboard
LeaderboardManager_showOfflineLeaderboard(l) ==
    [l EXCEPT !.log = Append(@, "showOfflineLeaderboardModal"),
              !.modal = "none"]

\* the board after the server has taken a score in
RECURSIVE Inserted(_, _)
Inserted(board, playerScore) ==
    IF board = << >>
      THEN << playerScore >>
    ELSE IF playerScore > Head(board)
      THEN << playerScore >> \o board
    ELSE << Head(board) >> \o Inserted(Tail(board), playerScore)

BoardWith(board, playerScore) ==
    LET b == Inserted(board, playerScore)
    IN  SubSeq(b, 1, Min(Len(b), TopCount))

\* LeaderboardManager.submitScore(playerName, score) for a name the UI has
\* validated; online is navigator.onLine, f what getTopScoresWithCaching
\* comes to, p what submitScoreWithRetry comes to, f2 what the second
\* getTopScoresWithCaching comes to
LeaderboardManager_submitScore(l, playerScore, online, f, p, f2) ==
    LET l0 == [l EXCEPT !.log = << >>, !.modal = "none", !.fetched = FALSE,
                        !.topScores = << >>, !.score = playerScore,
                        !.isProcessing = FALSE]
        topScores == IF f.threw THEN << >> ELSE f.scores
        l1 == [l0 EXCEPT !.log = @ \o Events(f.requests, "GET"),
                         !.cache = f.cache,
                         !.fetched = ~f.threw, !.topScores = topScores]
        l2 == [l1 EXCEPT !.log = @ \o Events(p.posted, "POST")]
        l3 == [l2 EXCEPT !.log = @ \o Events(f2.requests, "GET"),
                         !.cache = f2.cache]
    IN  IF ~online
          THEN LeaderboardManager_showOfflineLeaderboard(l0)
        ELSE IF f.threw /\ LeaderboardManager_shouldShowRetryForError(f.error)
          THEN [l1 EXCEPT !.log = Append(@, "showNetworkErrorModal"),
                          !.modal = "network"]
        ELSE IF ~LeaderboardManager_doesPlayerQualify(playerScore, topScores)
          THEN LeaderboardManager_showLeaderboard(l1)
        ELSE IF p.state = "resolved"
          THEN LeaderboardManager_showLeaderboard(l3)
        ELSE IF LeaderboardManager_shouldShowRetryForError(p.lastError)
          THEN [l2 EXCEPT !.log = Append(@, "showApiErrorModal"),
                          !.modal = "api"]
        ELSE LeaderboardManager_showLeaderboard(l2)

\* LeaderboardManager.handleGameEnd(score)
LeaderboardManager_handleGameEnd(l, playerScore) ==
    IF l.isProcessing
      THEN l
      ELSE [l EXCEPT !.isProcessing = TRUE,
                     !.currentPlayerData = << playerScore >>]

\* LeaderboardManager.handleLeaderboardClose
LeaderboardManager_handleLeaderboardClose(l) ==
    [l EXCEPT !.isProcessing = FALSE, !.currentPlayerData = << >>]

\* the skip callback of the modal that is shown
LeaderboardManager_skip(l) ==
    IF l.modal = "network"
      THEN LeaderboardManager_showOfflineLeaderboard(l)
      ELSE LeaderboardManager_showLeaderboard(l)

\* new LeaderboardManager(uiManager, apiService), nothing cached
NewLeaderboardManager ==
    [ currentPlayerData |-> << >>, isProcessing |-> FALSE,
      cache |-> << >>, log |-> << >>, modal |-> "none",
      fetched |-> FALSE, topScores |-> << >>, score |-> 0 ]

---------------------------------------------------------------------------
(* The state record, construction, and the inputs of the model *)

\* the outputs of a frame, before the first frame
NoFrame == [state |-> "menu", collected |-> << >>, checked |-> FALSE]

CurS ==
    [ pool |-> pool, activeObjects |-> activeObjects, poolBuilt |-> poolBuilt,
      heap |-> heap, activeSouls |-> activeSouls, nextSoulId |-> nextSoulId,
      maxSouls |-> maxSouls, spawnRate |-> spawnRate,
      spawnTimer |-> spawnTimer, spawnInterval |-> spawnInterval,
      isSpawningPaused |-> isSpawningPaused, soulPool |-> soulPool,
      skullCollisionRadius |-> skullCollisionRadius,
      playerPosition |-> playerPosition, currentState |-> currentState,
      score |-> score, gameTime |-> gameTime, timeRemaining |-> timeRemaining,
      deltaTime |-> deltaTime, gameTimer |-> gameTimer, config |-> config,
      events |-> events, calls |-> calls, run |-> run,
      soulPosition |-> soulPosition,
      collisionCallbacks |-> collisionCallbacks,
      callbackCalls |-> callbackCalls, fieldSize |-> fieldSize,
      api |-> api, leaderboard |-> leaderboard, cadence |-> cadence,
      arrayManager |-> arrayManager, spawnHeight |-> spawnHeight,
      intervals |-> intervals, timerDisplay |-> timerDisplay,
      disposed |-> disposed,
      ret |-> Null, frame |-> NoFrame ]

\* the variables hold the fields of s
VarsAre(s) ==
    /\ pool = s.pool
    /\ activeObjects = s.activeObjects
    /\ poolBuilt = s.poolBuilt
    /\ heap = s.heap
    /\ activeSouls = s.activeSouls
    /\ nextSoulId = s.nextSoulId
    /\ maxSouls = s.maxSouls
    /\ spawnRate = s.spawnRate
    /\ spawnTimer = s.spawnTimer
    /\ spawnInterval = s.spawnInterval
    /\ isSpawningPaused = s.isSpawningPaused
    /\ soulPool = s.soulPool
    /\ skullCollisionRadius = s.skullCollisionRadius
    /\ playerPosition = s.playerPosition
    /\ currentState = s.currentState
    /\ score = s.score
    /\ gameTime = s.gameTime
    /\ timeRemaining = s.timeRemaining
    /\ deltaTime = s.deltaTime
    /\ gameTimer = s.gameTimer
    /\ config = s.config
    /\ events = s.events
    /\ calls = s.calls
    /\ run = s.run
    /\ soulPosition = s.soulPosition
    /\ collisionCallbacks = s.collisionCallbacks
    /\ callbackCalls = s.callbackCalls
    /\ fieldSize = s.fieldSize
    /\ api = s.api
    /\ leaderboard = s.leaderboard
    /\ cadence = s.cadence
    /\ arrayManager = s.arrayManager
    /\ spawnHeight = s.spawnHeight
    /\ intervals = s.intervals
    /\ timerDisplay = s.timerDisplay
    /\ disposed = s.disposed

\* the next state holds the fields of s
NextVarsAre(s) ==
    /\ pool' = s.pool
    /\ activeObjects' = s.activeObjects
    /\ poolBuilt' = s.poolBuilt
    /\ heap' = s.heap
    /\ activeSouls' = s.activeSouls
    /\ nextSoulId' = s.nextSoulId
    /\ maxSouls' = s.maxSouls
    /\ spawnRate' = s.spawnRate
    /\ spawnTimer' = s.spawnTimer
    /\ spawnInterval' = s.spawnInterval
    /\ isSpawningPaused' = s.isSpawningPaused
    /\ soulPool' = s.soulPool
    /\ skullCollisionRadius' = s.skullCollisionRadius
    /\ playerPosition' = s.playerPosition
    /\ currentState' = s.currentState
    /\ score' = s.score
    /\ gameTime' = s.gameTime
    /\ timeRemaining' = s.timeRemaining
    /\ deltaTime' = s.deltaTime
    /\ gameTimer' = s.gameTimer
    /\ config' = s.config
    /\ events' = s.events
    /\ calls' = s.calls
    /\ run' = s.run
    /\ soulPosition' = s.soulPosition
    /\ collisionCallbacks' = s.collisionCallbacks
    /\ callbackCalls' = s.callbackCalls
    /\ fieldSize' = s.fieldSize
    /\ api' = s.api
    /\ leaderboard' = s.leaderboard
    /\ cadence' = s.cadence
    /\ arrayManager' = s.arrayManager
    /\ spawnHeight' = s.spawnHeight
    /\ intervals' = s.intervals
    /\ timerDisplay' = s.timerDisplay
    /\ disposed' = s.disposed

\* the values the model gives to GameEngine.config (GAME_DURATION in ticks,
\* SOUL_SPAWN_RATE in tenths of a soul per second); the code's defaults are
\* 60 s, 10 souls and 1.5 souls per second
GameDuration == 3
SoulCount == 2
ConfigSpawnRate == 600
InitialPoolSize == 1   \* initialSize of the SoulPool (12 in the code)

---------------------------------------------------------------------------
(* The SoulManager of src/components/SoulManager.js, which keeps its idle  *)
(* souls in an array and has no isSpawningPaused flag.  m is the record of *)
(* its fields; activeSouls is the sequence of the souls in Map order.      *)

\* the pool keeps at most 20 souls
ArrayPoolLimit == 20

\* new SoulManager(renderEngine)
NewArraySoulManager ==
    [ activeSouls |-> << >>, soulPool |-> << >>, nextSoulId |-> 0,
      maxSouls |-> 15, spawnRate |-> 20, spawnTimer |-> 0,
      spawnInterval |-> IntervalOf(20) ]

\* SoulManager.returnSoulToPool
ArraySoulManager_returnSoulToPool(m, soul) ==
    IF Len(m.soulPool) < ArrayPoolLimit
      THEN [m EXCEPT !.soulPool = Append(@, soul)]
      ELSE m

\* SoulManager.spawnSoul: a soul popped from the pool and reset, or a new one
ArraySoulManager_spawnSoul(m, position) ==
    IF Len(m.activeSouls) >= m.maxSouls
      THEN m
      ELSE LET soul == Soul_new(m.nextSoulId, position)
           IN  [m EXCEPT
                 !.soulPool = IF Len(@) > 0
                                THEN SubSeq(@, 1, Len(@) - 1) ELSE @,
                 !.nextSoulId = @ + 1,
                 !.activeSouls = Append(@, soul)]

\* SoulManager.removeSoul
ArraySoulManager_removeSoul(m, soulId) ==
    LET at == { i \in 1 .. Len(m.activeSouls) : m.activeSouls[i].id = soulId }
    IN  IF at = {}
          THEN m
          ELSE LET i == CHOOSE j \in at : TRUE
               IN  ArraySoulManager_returnSoulToPool(
                       [m EXCEPT !.activeSouls =
                            SubSeq(@, 1, i - 1) \o SubSeq(@, i + 1, Len(@))],
                       m.activeSouls[i])

RECURSIVE ArraySoulManager_removeAll(_, _)
ArraySoulManager_removeAll(m, ids) ==
    IF ids = << >>
      THEN m
      ELSE ArraySoulManager_removeAll(
               ArraySoulManager_removeSoul(m, Head(ids)), Tail(ids))

\* the ids update collects in soulsToRemove: the souls whose collection
\* animation is complete, in Map order
RECURSIVE ArraySoulsToRemove(_)
ArraySoulsToRemove(souls) ==
    IF souls = << >>
      THEN << >>
    ELSE IF Soul_isCollectionComplete(Head(souls))
      THEN << Head(souls).id >> \o ArraySoulsToRemove(Tail(souls))
    ELSE ArraySoulsToRemove(Tail(souls))

\* SoulManager.update(deltaTime)
ArraySoulManager_update(m, dt, position) ==
    LET m1 == [m EXCEPT !.spawnTimer = @ + dt]
        m2 == IF m1.spawnTimer >= m1.spawnInterval
                   /\ Len(m1.activeSouls) < m1.maxSouls
                THEN [ArraySoulManager_spawnSoul(m1, position)
                         EXCEPT !.spawnTimer = 0]
                ELSE m1
        m3 == [m2 EXCEPT !.activeSouls =
                  [i \in 1 .. Len(@) |-> Soul_update(@[i], dt, Vec(0, 0, 0))]]
    IN  ArraySoulManager_removeAll(m3, ArraySoulsToRemove(m3.activeSouls))

\* SoulManager.collectSoul
ArraySoulManager_collectSoul(m, soulId) ==
    [m EXCEPT !.activeSouls =
        [i \in 1 .. Len(@) |->
            IF @[i].id = soulId /\ ~@[i].isCollected
              THEN Soul_startCollection(@[i]) ELSE @[i]]]

\* SoulManager.setSpawnRate
ArraySoulManager_setSpawnRate(m, rate) ==
    [m EXCEPT !.spawnRate = Max(1, rate),
              !.spawnInterval = IntervalOf(Max(1, rate))]

\* SoulManager.pauseSpawning
ArraySoulManager_pauseSpawning(m) == [m EXCEPT !.spawnRate = 0]

\* SoulManager.resumeSpawning(spawnRate = null)
ArraySoulManager_resumeSpawning(m, rate) ==
    IF rate # NoRate
      THEN ArraySoulManager_setSpawnRate(m, rate)
    ELSE IF m.spawnRate = 0
      THEN [m EXCEPT !.spawnRate = 20, !.spawnInterval = IntervalOf(20)]
    ELSE m

\* GameEngine.updateGameOverState on this manager: pauseSpawning(), then
\* update(deltaTime)
ArraySoulManager_gameOverFrame(m, dt, position) ==
    ArraySoulManager_update(ArraySoulManager_pauseSpawning(m), dt, position)

\* no spawn of SoulManager.update recorded
NoCadence ==
    [ since |-> 0, counted |-> FALSE, spawned |-> 0, paired |-> FALSE,
      gap |-> 0 ]

\* the fields as the constructors leave them: ObjectPool constructor before
\* pre-population, SoulManager constructor, CollisionDetector constructor,
\* PlayerController constructor, GameEngine constructor
Constructed ==
    [ pool |-> << >>, activeObjects |-> {}, poolBuilt |-> {}, heap |-> << >>,
      activeSouls |-> << >>, nextSoulId |-> 0,
      maxSouls |-> 10, spawnRate |-> 15, spawnTimer |-> 0,
      spawnInterval |-> IntervalOf(15), isSpawningPaused |-> FALSE,
      soulPool |-> "SoulPool",
      skullCollisionRadius |-> 12,
      playerPosition |-> PlayerStart,
      currentState |-> "menu", score |-> 0, gameTime |-> 0,
      timeRemaining |-> 60 * TicksPerSecond, deltaTime |-> 0,
      gameTimer |-> FALSE,
      config |-> [ GAME_DURATION |-> GameDuration, SOUL_COUNT |-> SoulCount,
                   FIELD_SIZE |-> [x |-> 100, z |-> 100],
                   SOUL_SPAWN_RATE |-> ConfigSpawnRate,
                   COLLISION_RADIUS |-> 15 ],
      events |-> [id \in 0..MaxSoulIds |-> 0],
      calls |-> NoCalls,
      ret |-> Null, frame |-> NoFrame,
      run |-> [dt |-> -1, n |-> 0],
      soulPosition |-> << >>,
      collisionCallbacks |-> << >>, callbackCalls |-> 0,
      fieldSize |-> [x |-> 100, z |-> 100],
      api |-> ApiIdle,
      leaderboard |-> NewLeaderboardManager,
      cadence |-> NoCadence,
      arrayManager |-> NewArraySoulManager,
      spawnHeight |-> [min |-> 15, max |-> 40],
      intervals |-> 0, timerDisplay |-> NoDisplay, disposed |-> FALSE ]

\* GameEngine.initializeGameState (called by GameEngine.init)
GameEngine_initializeGameState(s) ==
    LET s1 == GameEngine_resetTimerAndScore(
                  [s EXCEPT !.currentState = "menu", !.gameTime = 0])
        s2 == SoulManager_setSpawnRate(
                  SoulManager_setMaxSouls(s1, s1.config.SOUL_COUNT),
                  s1.config.SOUL_SPAWN_RATE)
        s3 == SoulManager_setFieldSize(s2, s2.config.FIELD_SIZE.x,
                                       s2.config.FIELD_SIZE.z)
    IN  CollisionDetector_addCollisionCallback(s3, "handleSoulCollection")

\* GameEngine.updateConfig(newConfig): newConfig is a record of some of the
\* fields of config
GameEngine_updateConfig(s, newConfig) ==
    LET has(k) == k \in DOMAIN newConfig
        s1 == [s EXCEPT !.config =
                 [ GAME_DURATION |->
                       IF has("GAME_DURATION") THEN newConfig.GAME_DURATION
                                               ELSE @.GAME_DURATION,
                   SOUL_COUNT |->
                       IF has("SOUL_COUNT") THEN newConfig.SOUL_COUNT
                                            ELSE @.SOUL_COUNT,
                   FIELD_SIZE |->
                       IF has("FIELD_SIZE") THEN newConfig.FIELD_SIZE
                                            ELSE @.FIELD_SIZE,
                   SOUL_SPAWN_RATE |->
                       IF has("SOUL_SPAWN_RATE") THEN newConfig.SOUL_SPAWN_RATE
                                                 ELSE @.SOUL_SPAWN_RATE,
                   COLLISION_RADIUS |->
                       IF has("COLLISION_RADIUS")
                         THEN newConfig.COLLISION_RADIUS
                         ELSE @.COLLISION_RADIUS ]]
        s2 == IF has("SOUL_COUNT")
                THEN SoulManager_setMaxSouls(s1, newConfig.SOUL_COUNT)
                ELSE s1
        s3 == IF has("SOUL_SPAWN_RATE")
                THEN SoulManager_setSpawnRate(s2, newConfig.SOUL_SPAWN_RATE)
                ELSE s2
        s4 == IF has("FIELD_SIZE")
                THEN SoulManager_setFieldSize(s3, newConfig.FIELD_SIZE.x,
                                              newConfig.FIELD_SIZE.z)
                ELSE s3
    IN  [s4 EXCEPT !.ret = Null]

\* the state after main.js has constructed and initialised the systems
InitS ==
    GameEngine_initializeGameState(
        ObjectPool_prepopulate(Constructed, InitialPoolSize))

Init == VarsAre(InitS)

\* positions generateSpawnPosition can return (within the field and the
\* spawn-height band), motion offsets Soul.update can compute, positions
\* the avatar can take, and arguments given to the setters
SpawnPoints == { Vec(10, 25, 0), Vec(60, 25, 0) }
Offsets == { Vec(0, 0, 0), Vec(10, 0, 0) }
PlayerPositions == { PlayerStart, Vec(10, 25, 0) }
SkullRadii == { 5, 60 }
MaxSoulsArgs == { 0, 2, 3 }
SpawnRateArgs == { 0, 600 }

\* the bounds of the model, as a guard on the state an operation produces
Bounded(s) ==
    /\ Len(s.heap) <= MaxObjects
    /\ s.nextSoulId <= MaxSoulIds
    /\ s.spawnTimer <= MaxSpawnTimer

\* the step to the state s an operation produces
Do(s) ==
    \E r \in { s } :
        /\ Bounded(r)
        /\ NextVarsAre(r)

\* the souls that are active and not collected
FreeActive(s) ==
    { s.activeSouls[i].obj : i \in 1..Len(s.activeSouls) }
        \cap { o \in 1..Len(s.heap) : ~s.heap[o].isCollected }

\* a choice of offsets for some souls, extended by zero to every object
MvTotal(mv) ==
    [o \in 1..(MaxObjects + 1) |->
        IF o \in DOMAIN mv THEN mv[o] ELSE Vec(0, 0, 0)]

---------------------------------------------------------------------------
(* Specification of the pool alone: ObjectPool.acquire and release called  *)
(* directly, release with tracked, released and foreign objects.           *)

Acquire == Do(ObjectPool_acquire(CurS))

Release == \E obj \in 1..Len(heap) : Do(ObjectPool_release(CurS, obj))

\* SoulPool.acquireSoul(position)
AcquireSoul == \E p \in SpawnPoints : Do(SoulPool_acquireSoul(CurS, p))

\* a Soul constructed outside the pool (new Soul(id, position))
NewSoul ==
    \E p \in SpawnPoints :
        Do([CurS EXCEPT !.heap = Append(@, Soul_new(NoId, p)),
                                    !.ret = Len(heap) + 1])

\* whoever holds a Soul starts its collection (Soul.startCollection)
StartCollection ==
    \E obj \in 1..Len(heap) :
        Do([CurS EXCEPT !.heap[obj] = Soul_startCollection(@)])

NextPool == Acquire \/ AcquireSoul \/ Release \/ NewSoul \/ StartCollection

SpecPool == Init /\ [][NextPool]_vars

---------------------------------------------------------------------------
(* Specification of the pool with a reset callback that can throw: the     *)
(* steps of SpecPool, and release calls in which resetFn throws.           *)

ReleaseThrows ==
    \E obj \in 1..Len(heap), afterReset \in BOOLEAN :
        Do(ObjectPool_release_Throwing(CurS, obj, afterReset))

NextPoolThrows == NextPool \/ ReleaseThrows

SpecPoolThrows == Init /\ [][NextPoolThrows]_vars

---------------------------------------------------------------------------
(* Specification of the SoulManager: its public operations, called in any  *)
(* order with any arguments.                                               *)

DtStep == 8   \* the deltaTime values given to SoulManager.update, in ticks,
              \* are the multiples of DtStep up to MaxDt * DtStep
FieldDts == { k * DtStep : k \in 0..MaxDt }

ManagerPoints == { Vec(10, 25, 0) }
ManagerOffsets == { Vec(0, 0, 0) }

Update ==
    \E dt \in FieldDts, p \in ManagerPoints :
        \E mv \in [FreeActive(SoulManager_spawnStep(CurS, dt, p))
                      -> ManagerOffsets] :
            Do(SoulManager_update(CurS, dt, p, MvTotal(mv)))

SpawnSoul ==
    \E p \in ManagerPoints : Do(SoulManager_spawnSoul(CurS, p))

SpawnSoulsAtPositions ==
    \E p \in ManagerPoints, n \in 1..2 :
        Do(SoulManager_spawnSoulsAtPositions(CurS, [i \in 1..n |-> p]))

CollectSoul ==
    \E id \in 0..MaxSoulIds : Do(SoulManager_collectSoul(CurS, id))

ClearAllSouls == Do(SoulManager_clearAllSouls(CurS))

PauseSpawning == Do(SoulManager_pauseSpawning(CurS))

ResumeSpawning ==
    \E r \in SpawnRateArgs \cup {NoRate} :
        Do(SoulManager_resumeSpawning(CurS, r))

SetMaxSouls ==
    \E n \in MaxSoulsArgs : Do(SoulManager_setMaxSouls(CurS, n))

NextManager ==
    \/ Update
    \/ SpawnSoul
    \/ SpawnSoulsAtPositions
    \/ CollectSoul
    \/ ClearAllSouls
    \/ PauseSpawning
    \/ ResumeSpawning
    \/ SetMaxSouls

SpecManager == Init /\ [][NextManager]_vars

---------------------------------------------------------------------------
(* Specification of the spawn cadence: SoulManager.update is called with   *)
(* short frames while souls are spawned by hand, collected and cleared,    *)
(* and spawning is paused and resumed.  cadence is a history of the spawns *)
(* that update performs.                                                   *)

\* cap on the time recorded between two spawns, in ticks
MaxSince == 12

\* spawn rates, in tenths of a soul per second: intervals of 8 and 3 ticks
CadenceRates == { 75, 200 }

\* deltaTime values, in ticks
CadenceDts == { 0, 4 }

\* the ids of the active souls of s
IdsOf(s) == { s.activeSouls[i].id : i \in 1 .. Len(s.activeSouls) }

\* the history after SoulManager.update(dt) has taken s to r
CadenceAfterUpdate(s, r, dt) ==
    LET acc == IF s.isSpawningPaused
                 THEN s.cadence.since ELSE s.cadence.since + dt
        new == Cardinality(IdsOf(r) \ IdsOf(s))
    IN  IF new > 0
          THEN [ since |-> 0, counted |-> TRUE, spawned |-> new,
                 paired |-> s.cadence.counted, gap |-> acc ]
          ELSE [ since |-> acc, counted |-> s.cadence.counted,
                 spawned |-> 0, paired |-> FALSE, gap |-> 0 ]

\* the history after an operation that is not update
CadenceAfterCall(r) ==
    [r EXCEPT !.cadence.spawned = 0, !.cadence.paired = FALSE,
              !.cadence.gap = 0]

CadenceUpdate ==
    \E dt \in CadenceDts, p \in ManagerPoints :
        \E mv \in [FreeActive(SoulManager_spawnStep(CurS, dt, p))
                      -> ManagerOffsets] :
            \E r \in { SoulManager_update(CurS, dt, p, MvTotal(mv)) } :
                /\ CadenceAfterUpdate(CurS, r, dt).since <= MaxSince
                /\ Do([r EXCEPT !.cadence = CadenceAfterUpdate(CurS, r, dt)])

CadenceSpawnSoul ==
    \E p \in ManagerPoints :
        Do(CadenceAfterCall(SoulManager_spawnSoul(CurS, p)))

CadenceCollectSoul ==
    \E id \in 0..MaxSoulIds :
        Do(CadenceAfterCall(SoulManager_collectSoul(CurS, id)))

CadenceClearAllSouls == Do(CadenceAfterCall(SoulManager_clearAllSouls(CurS)))

CadencePauseSpawning == Do(CadenceAfterCall(SoulManager_pauseSpawning(CurS)))

CadenceResumeSpawning ==
    Do(CadenceAfterCall(SoulManager_resumeSpawning(CurS, NoRate)))

\* a new rate starts a new history
CadenceSetSpawnRate ==
    \E rate \in CadenceRates :
        Do([SoulManager_setSpawnRate(CurS, rate) EXCEPT !.cadence = NoCadence])

NextCadence ==
    \/ CadenceUpdate
    \/ CadenceSpawnSoul
    \/ CadenceCollectSoul
    \/ CadenceClearAllSouls
    \/ CadencePauseSpawning
    \/ CadenceResumeSpawning
    \/ CadenceSetSpawnRate

SpecCadence == Init /\ [][NextCadence]_vars

---------------------------------------------------------------------------
(* Specification of the array-pool SoulManager: updates with any frame     *)
(* time, collections, pauses and resumes, and frames of 'game-over'.       *)

MaxArrayIds == 3

\* deltaTime values, in ticks: nothing, a quarter and half of the default
\* spawn interval
ArrayDts == { 0, 8, 15 }

ArrayBounded(m) ==
    /\ m.nextSoulId <= MaxArrayIds
    /\ m.spawnTimer <= 2 * IntervalOf(20)

ArrayDo(m) ==
    /\ ArrayBounded(m)
    /\ Do([CurS EXCEPT !.arrayManager = m])

ArrayUpdate ==
    \E dt \in ArrayDts, p \in ManagerPoints :
        ArrayDo(ArraySoulManager_update(arrayManager, dt, p))

ArrayCollectSoul ==
    \E id \in 0 .. MaxArrayIds :
        ArrayDo(ArraySoulManager_collectSoul(arrayManager, id))

ArrayPauseSpawning == ArrayDo(ArraySoulManager_pauseSpawning(arrayManager))

ArrayResumeSpawning ==
    \E rate \in { NoRate, 40 } :
        ArrayDo(ArraySoulManager_resumeSpawning(arrayManager, rate))

ArrayGameOverFrame ==
    \E dt \in ArrayDts, p \in ManagerPoints :
        ArrayDo(ArraySoulManager_gameOverFrame(arrayManager, dt, p))

NextArray ==
    \/ ArrayUpdate
    \/ ArrayCollectSoul
    \/ ArrayPauseSpawning
    \/ ArrayResumeSpawning
    \/ ArrayGameOverFrame

SpecArray == Init /\ [][NextArray]_vars

---------------------------------------------------------------------------
(* Specification of the configuration setters: setMaxSouls, setSpawnRate  *)
(* and setFieldSize are called with negative, zero and positive arguments *)
(* while souls spawn and are collected.                                   *)

CountArgs == { -3, 0, 1, 2 }          \* setMaxSouls arguments
RateArgs == { -15, 0, 1, 15, 600 }    \* setSpawnRate arguments, in tenths
SizeArgs == { -100, 0, 5, 10, 150 }   \* setFieldSize arguments, in tenths

ConfigSetMaxSouls ==
    \E n \in CountArgs : Do(SoulManager_setMaxSouls(CurS, n))

ConfigSetSpawnRate ==
    \E r \in RateArgs : Do(SoulManager_setSpawnRate(CurS, r))

ConfigSetFieldSize ==
    \E x \in SizeArgs, z \in SizeArgs :
        Do(SoulManager_setFieldSize(CurS, x, z))

NextConfig ==
    \/ ConfigSetMaxSouls
    \/ ConfigSetSpawnRate
    \/ ConfigSetFieldSize
    \/ SpawnSoul
    \/ CollectSoul

SpecConfig == Init /\ [][NextConfig]_vars

---------------------------------------------------------------------------
(* Specification of the spawn positions: souls are spawned where           *)
(* generateSpawnPosition puts them, for any field size and height band the *)
(* setters leave, and updated and collected.                               *)

\* setSpawnHeightRange arguments, in tenths
HeightArgs == { -10, 0, 40 }

\* setFieldSize arguments, in tenths
SpawnSizes == { 5, 150 }

SpawnSetFieldSize ==
    \E x \in SpawnSizes, z \in SpawnSizes :
        Do(SoulManager_setFieldSize(CurS, x, z))

SpawnSetSpawnHeightRange ==
    \E lo \in HeightArgs, hi \in HeightArgs :
        Do(SoulManager_setSpawnHeightRange(CurS, lo, hi))

\* SoulManager.spawnSoul() with its call of generateSpawnPosition()
SpawnGenerated ==
    \E rx \in Randoms, ry \in Randoms, rz \in Randoms :
        Do(SoulManager_spawnSoul(
               CurS, SoulManager_generateSpawnPosition(CurS, rx, ry, rz)))

\* SoulManager.update in a frame of no length: no spawn falls due, every
\* active soul is updated and so clamped to its bounds
SpawnUpdate ==
    \E mv \in [FreeActive(CurS) -> ManagerOffsets] :
        Do(SoulManager_update(CurS, 0, PlayerStart, MvTotal(mv)))

NextSpawn ==
    \/ SpawnSetFieldSize
    \/ SpawnSetSpawnHeightRange
    \/ SpawnGenerated
    \/ SpawnUpdate
    \/ CollectSoul

\* the manager after construction and setMaxSouls(1)
InitSpawn == VarsAre(SoulManager_setMaxSouls(InitS, 1))

SpecSpawn == InitSpawn /\ [][NextSpawn]_vars

---------------------------------------------------------------------------
(* Specification of the SoulManager's ids: souls are activated, cleared    *)
(* and collected, and the manager is disposed of.  A call that reaches     *)
(* this.soulPool after dispose() throws a TypeError before it changes      *)
(* anything: spawnSoul at acquireSoul, clearAllSouls and dispose at the    *)
(* first releaseSoul (they go through when no soul is active).             *)

IdsSpawnSoul ==
    /\ soulPool # Null
    /\ SpawnSoul

IdsClearAllSouls ==
    /\ soulPool # Null \/ activeSouls = << >>
    /\ ClearAllSouls

Dispose ==
    /\ soulPool # Null \/ activeSouls = << >>
    /\ Do(SoulManager_dispose(CurS))

NextIds ==
    \/ IdsSpawnSoul
    \/ SpawnSoulsAtPositions
    \/ IdsClearAllSouls
    \/ CollectSoul
    \/ Dispose

SpecIds == Init /\ [][NextIds]_vars

---------------------------------------------------------------------------
(* Specification of the collision check: souls spawn and move, the avatar  *)
(* moves, the skull radius is reconfigured, and checkCollisionsOptimized   *)
(* runs between these.                                                     *)

FieldUpdate ==
    \E dt \in FieldDts, p \in SpawnPoints :
        \E mv \in [FreeActive(SoulManager_spawnStep(CurS, dt, p)) -> Offsets] :
            Do(SoulManager_update(CurS, dt, p, MvTotal(mv)))

FieldSpawnSoul ==
    \E p \in SpawnPoints : Do(SoulManager_spawnSoul(CurS, p))

CheckCollisionsOptimized ==
    Do(CollisionDetector_checkCollisionsOptimized(CurS))

SetSkullCollisionRadius ==
    \E r \in SkullRadii :
        Do(CollisionDetector_setSkullCollisionRadius(CurS, r))

\* the avatar moves (PlayerController.move / update between two checks)
MovePlayer ==
    \E p \in PlayerPositions :
        Do([CurS EXCEPT !.playerPosition = p])

NextCollide ==
    \/ FieldUpdate
    \/ FieldSpawnSoul
    \/ CheckCollisionsOptimized
    \/ SetSkullCollisionRadius
    \/ MovePlayer

SpecCollide == Init /\ [][NextCollide]_vars

---------------------------------------------------------------------------
(* Specification of the configured collision radius: the configuration is  *)
(* updated, souls spawn, the avatar moves, and checkCollisionsOptimized    *)
(* runs between these.                                                     *)

\* the newConfig arguments of updateConfig
ConfigChanges ==
    << [COLLISION_RADIUS |-> 5],
       [COLLISION_RADIUS |-> 30],
       [SOUL_COUNT |-> 3, SOUL_SPAWN_RATE |-> 20],
       [FIELD_SIZE |-> [x |-> 50, z |-> 50]] >>

\* where the souls of this specification spawn: 2.0 and 6.0 from the start
\* position of the avatar
RadiusPoints == { Vec(20, 25, 0), Vec(60, 25, 0) }

UpdateConfig ==
    \E i \in 1 .. Len(ConfigChanges) :
        Do(GameEngine_updateConfig(CurS, ConfigChanges[i]))

RadiusSpawnSoul ==
    \E p \in RadiusPoints : Do(SoulManager_spawnSoul(CurS, p))

NextRadius ==
    \/ UpdateConfig
    \/ RadiusSpawnSoul
    \/ MovePlayer
    \/ CheckCollisionsOptimized

SpecRadius == Init /\ [][NextRadius]_vars

---------------------------------------------------------------------------
(* Specification of the game: the frames of GameEngine.update, and         *)
(* startGame / restartGame called from outside the frame loop.             *)

MaxRawDt == 3   \* largest frame time before the clamp, in ticks

\* the inputs a frame reads: the frame time (none, one tick, or a long
\* frame of MaxRawDt ticks), the input vector in 'menu', the avatar's
\* position and the spawn position in 'playing'; the souls stay where they
\* spawn during a game and drift after it
FrameTimes == { 0, 1, MaxRawDt }
FrameMoving == IF currentState = "menu" THEN BOOLEAN ELSE { FALSE }
GamePlayers == { PlayerStart, Vec(20, 25, 0) }
GamePoints == { Vec(10, 25, 0), Vec(30, 25, 0) }
GameOffsets == { Vec(0, 0, 0) }
GameOverOffsets == { Vec(0, 0, 0), Vec(-20, 0, 0) }
FramePlayers ==
    IF currentState = "playing" THEN GamePlayers ELSE { playerPosition }
FramePoints ==
    IF currentState = "playing" THEN GamePoints ELSE { Vec(10, 25, 0) }
FrameOffsets ==
    IF currentState = "game-over" THEN GameOverOffsets ELSE GameOffsets

\* one requestAnimationFrame callback: GameEngine.update
Frame ==
    \E raw \in FrameTimes, moving \in FrameMoving, pl \in FramePlayers,
       p \in FramePoints :
        \E mv \in [FreeActive(SoulManager_spawnStep(
                                  CurS, Min(raw, MaxFrameTicks), p))
                      -> FrameOffsets] :
            Do(GameEngine_update(CurS, raw, moving, pl, p, MvTotal(mv)))

\* main.js: gameEngine.startGame() after the loading delay
StartGame == Do(GameEngine_startGame(CurS))

\* main.js: the restart callback of the game-over dialog
RestartGame ==
    /\ currentState = "game-over"
    /\ Do(GameEngine_restartGame(CurS))

Next == Frame \/ StartGame \/ RestartGame

Spec == Init /\ [][Next]_vars

---------------------------------------------------------------------------
(* Specification of the bonus time: the game of Spec, with addBonusTime    *)
(* called between frames.                                                  *)

MaxBonus == 1   \* most ticks timeRemaining is taken above GAME_DURATION

\* the bonusSeconds arguments, in ticks
BonusTimes == { 1 }

AddBonusTime ==
    \E b \in BonusTimes :
        /\ timeRemaining + b <= config.GAME_DURATION + MaxBonus
        /\ Do(GameEngine_addBonusTime(CurS, b))

NextBonus == Frame \/ StartGame \/ AddBonusTime

SpecBonus == Init /\ [][NextBonus]_vars

\* a step in 'game-over' after which deltaTime > 0: in 'game-over' the
\* engine's steps are frames (startGame and restartGame leave the state),
\* and GameEngine.update writes deltaTime, so this is a frame in which time
\* has passed
TimedFrame ==
    /\ currentState = "game-over"
    /\ currentState' = "game-over"
    /\ deltaTime' > 0

\* The game while the frame loop runs.  GameEngine.update requests the next
\* animation frame before it does anything else (also before the call that
\* throws in updateGameOverState), and the clock advances between frames:
\* frames with deltaTime > 0 keep arriving.
SpecLive == Spec /\ []<><<TimedFrame>>_vars

---------------------------------------------------------------------------
(* Specification of the game with its public methods called from outside   *)
(* in any state: the frames, and startGame, restartGame and endGame.       *)

RestartGameAnyState == Do(GameEngine_restartGame(CurS))

MaxEndGames == 2   \* endGame calls followed after one startGame

EndGame ==
    /\ calls.endGame < MaxEndGames
    /\ Do(GameEngine_endGame(CurS))

NextCalls == Frame \/ StartGame \/ RestartGameAnyState \/ EndGame

SpecCalls == Init /\ [][NextCalls]_vars

---------------------------------------------------------------------------
(* Specification of the display-refresh timer: the game of SpecCalls with  *)
(* dispose, with the public methods called on a disposed engine too, and   *)
(* with the ticks of the interval between the frames.                      *)

\* a frame of the game loop, which dispose() stops; the avatar stays where
\* it is and the souls spawn next to its start position
TimerFrame ==
    /\ ~disposed
    /\ \E raw \in FrameTimes, moving \in FrameMoving :
           Do(GameEngine_update(CurS, raw, moving, playerPosition,
                                Vec(10, 25, 0), MvTotal(<< >>)))

TimerStartGame ==
    Do(IF disposed THEN GameEngine_startGame_Disposed(CurS)
                   ELSE GameEngine_startGame(CurS))

TimerRestartGame ==
    Do(IF disposed THEN GameEngine_startGame_Disposed(CurS)
                   ELSE GameEngine_restartGame(CurS))

TimerEndGame ==
    /\ calls.endGame < MaxEndGames
    /\ Do(IF disposed THEN GameEngine_endGame_Disposed(CurS)
                      ELSE GameEngine_endGame(CurS))

TimerDispose == Do(GameEngine_dispose(CurS))

\* the callback of an installed interval runs
TimerTick ==
    /\ intervals > 0
    /\ Do(GameEngine_updateTimerDisplay(CurS))

NextTimer ==
    \/ TimerFrame
    \/ TimerStartGame
    \/ TimerRestartGame
    \/ TimerEndGame
    \/ TimerDispose
    \/ TimerTick

SpecTimer == Init /\ [][NextTimer]_vars

---------------------------------------------------------------------------
(* Specification of the collision callbacks: further callbacks are added   *)
(* to and removed from the detector, among them one that throws; the game  *)
(* is started, souls spawn, the avatar moves and checkCollisionsOptimized  *)
(* runs between these.                                                     *)

MaxCallbacks == 2
Callbacks == { "handleSoulCollection", "throws", "observer" }

AddCollisionCallback ==
    \E callback \in Callbacks :
        /\ Len(collisionCallbacks) < MaxCallbacks
        /\ Do(CollisionDetector_addCollisionCallback(CurS, callback))

RemoveCollisionCallback ==
    \E callback \in Callbacks :
        Do(CollisionDetector_removeCollisionCallback(CurS, callback))

NextCallbacks ==
    \/ AddCollisionCallback
    \/ RemoveCollisionCallback
    \/ StartGame
    \/ FieldSpawnSoul
    \/ MovePlayer
    \/ CheckCollisionsOptimized

SpecCallbacks == Init /\ [][NextCallbacks]_vars

---------------------------------------------------------------------------
(* The retry wrapper on its own: calls of retryOperation with any          *)
(* operation, input and options, every attempt settling with any outcome.  *)

MaxRetries == 3

RetryArgs == 0 .. MaxRetries

\* options.baseDelay, in ms: the default and a larger one
BaseDelays == { 1000, 4000 }

Operations == { "getTopScores", "submitScore" }

Settled == { "idle", "resolved", "rejected" }

\* getTopScoresWithRetry, submitScoreWithRetry or a direct retryOperation
RetryOperation ==
    /\ api.state \in Settled
    /\ \E operation \in Operations, maxRetries \in RetryArgs,
          baseDelay \in BaseDelays :
         \E input \in IF operation = "submitScore"
                        THEN SubmitInputs ELSE { "valid" } :
           Do([CurS EXCEPT !.api = APIService_retryOperation(
                                       operation, input, maxRetries,
                                       baseDelay)])

AttemptSettles ==
    /\ api.state = "attempting"
    /\ \E outcome \in Outcomes, jitter \in Jitters :
         Do([CurS EXCEPT !.api = APIService_attemptSettles(api, outcome,
                                                           jitter)])

DelayPassed ==
    /\ api.state = "waiting"
    /\ Do([CurS EXCEPT !.api = APIService_delayPassed(api)])

NextRetry == RetryOperation \/ AttemptSettles \/ DelayPassed

SpecRetry == Init /\ [][NextRetry]_vars

\* every attempt settles and every timer fires
SpecRetryLive ==
    SpecRetry /\ WF_vars(AttemptSettles) /\ WF_vars(DelayPassed)

---------------------------------------------------------------------------
(* The leaderboard flow on its own: games end with any score, the name is  *)
(* submitted, the server lists any board and every request has any of the  *)
(* outcomes; an error modal is answered with retry or skip.                *)

MaxLeaderScore == 2

\* scores below, at and above the lowest score of the boards
LeaderScores == 0 .. MaxLeaderScore

LowestListed == MaxLeaderScore - 1

\* the board of n scores whose lowest is low
BoardOf(n, low) == [i \in 1 .. n |-> low + (n - i)]

\* an empty board, one with a free place, a full one
Boards ==
    { << >>, BoardOf(TopCount - 1, LowestListed),
      BoardOf(TopCount, LowestListed) }

\* the outcomes of the first and the second attempt of the first fetch (a
\* 404 is not tried again), of the submission, and of the second fetch
GetAttempts ==
    { << "ok", "ok" >>, << "HTTP 404", "HTTP 404" >>,
      << "HTTP 500", "ok" >>, << "HTTP 500", "HTTP 500" >> }

PostAttempts ==
    { << "ok", "ok" >>, << "HTTP 404", "ok" >>, << "HTTP 500", "HTTP 500" >> }

AgainAttempts == { << "ok", "ok" >>, << "HTTP 500", "HTTP 500" >> }

HandleGameEnd ==
    \E playerScore \in LeaderScores :
      Do([CurS EXCEPT !.leaderboard =
              LeaderboardManager_handleGameEnd(leaderboard, playerScore)])

\* the states a call of submitScore(playerName, playerScore) can lead to:
\* the API calls are made in their order, each with any outcome
SubmitScoreResults(playerScore) ==
    UNION { UNION { UNION {
        { LeaderboardManager_submitScore(leaderboard, playerScore, i[1],
                                         f, p, f2) :
            f2 \in { APIService_getTopScoresWithCaching(
                         f.cache, again, BoardWith(i[2], playerScore)) :
                       again \in AgainAttempts } } :
        p \in { APIService_withRetry("submitScore", "valid", posts) :
                  posts \in PostAttempts } } :
        f \in { APIService_getTopScoresWithCaching(leaderboard.cache, gets,
                                                    i[2]) :
                  gets \in GetAttempts } } :
        i \in BOOLEAN \X Boards }

\* LeaderboardManager.handleNameSubmission(playerName)
HandleNameSubmission ==
    /\ leaderboard.currentPlayerData # << >>
    /\ \E l \in SubmitScoreResults(leaderboard.currentPlayerData[1]) :
         Do([CurS EXCEPT !.leaderboard = l])

\* the retry button of an error modal: submitScore(playerName, score) again
ModalRetry ==
    /\ leaderboard.modal # "none"
    /\ \E l \in SubmitScoreResults(leaderboard.score) :
         Do([CurS EXCEPT !.leaderboard = l])

\* the skip button of an error modal
ModalSkip ==
    /\ leaderboard.modal # "none"
    /\ Do([CurS EXCEPT !.leaderboard = LeaderboardManager_skip(leaderboard)])

\* the close button of the leaderboard modal
HandleLeaderboardClose ==
    /\ leaderboard.modal = "none"
    /\ leaderboard.log # << >>
    /\ Do([CurS EXCEPT !.leaderboard =
               LeaderboardManager_handleLeaderboardClose(leaderboard)])

NextLeaderboard ==
    \/ HandleGameEnd
    \/ HandleNameSubmission
    \/ ModalRetry
    \/ ModalSkip
    \/ HandleLeaderboardClose

SpecLeaderboard == Init /\ [][NextLeaderboard]_vars

---------------------------------------------------------------------------
(* Specification of the game with souls in 'menu': the frames and          *)
(* startGame, and soulManager.spawnSoul() and collectSoul(id) called from  *)
(* outside the frame loop while the engine is in 'menu'.                   *)

MenuSpawnSoul ==
    /\ currentState = "menu"
    /\ \E p \in GamePoints : Do(SoulManager_spawnSoul(CurS, p))

MenuCollectSoul ==
    /\ currentState = "menu"
    /\ \E id \in 0..MaxSoulIds : Do(SoulManager_collectSoul(CurS, id))

NextMenu == Frame \/ StartGame \/ MenuSpawnSoul \/ MenuCollectSoul

SpecMenu == Init /\ [][NextMenu]_vars

---------------------------------------------------------------------------
(* Specification of one Soul: startCollection, update and reset called     *)
(* directly on the first Soul instance, with any deltaTime.                *)

MaxSoulDt == 4     \* largest deltaTime given to Soul.update, in ticks
MaxUpdates == 17   \* Soul.update calls followed after one startCollection
MixedDt == -2      \* run.dt when the updates of a run differ in deltaTime

TheSoul == 1

SoulStartCollection ==
    /\ Do([CurS EXCEPT
             !.heap[TheSoul] = Soul_startCollection(@),
             !.run = IF heap[TheSoul].isCollected
                       THEN @ ELSE [dt |-> -1, n |-> 0]])

SoulUpdate ==
    \E dt \in 0..MaxSoulDt, mv \in Offsets :
        /\ run.n < MaxUpdates
        /\ Do([CurS EXCEPT
                 !.heap[TheSoul] = Soul_update(@, dt, mv),
                 !.run = IF ~heap[TheSoul].isCollected
                           THEN @
                           ELSE [dt |-> IF @.n = 0 \/ @.dt = dt
                                          THEN dt ELSE MixedDt,
                                 n |-> @.n + 1]])

SoulReset ==
    Do([CurS EXCEPT !.heap[TheSoul] = Soul_reset(@),
                    !.run = [dt |-> -1, n |-> 0]])

SoulSetPosition ==
    \E p \in SpawnPoints :
        Do([CurS EXCEPT !.heap[TheSoul] = Soul_setPosition(@, p)])

NextSoul == SoulStartCollection \/ SoulUpdate \/ SoulReset \/ SoulSetPosition

SpecSoul == Init /\ [][NextSoul]_vars

---------------------------------------------------------------------------
(* Soul.update on a free soul, on Numbers: the first Soul instance is put *)
(* at a base position and updated with the offsets of a frame.  The base  *)
(* positions lie inside, on and far outside the field radius, and below,  *)
(* within and above the height range.                                     *)

BoundsPoints ==
    { Vec(x, y, z) : x \in { -250, -91, 0, 37, 90 },
                     z \in { -137, 0, 1, 300 },
                     y \in { -10, 25, 70 } }

BoundsOffsets == { Vec(0, 0, 0), Vec(13, -7, 5), Vec(-29, 38, 18) }

BoundsSetPosition ==
    \E p \in BoundsPoints :
        Do([CurS EXCEPT !.heap[TheSoul] = Soul_setPosition(@, p),
                        !.soulPosition = << >>])

\* Soul.update(dt): position = initialPosition + offsets, then the clamping
BoundsUpdate ==
    \E dt \in { 0, MaxSoulDt }, mv \in BoundsOffsets :
        Do([CurS EXCEPT
              !.heap[TheSoul] = Soul_update(@, dt, mv),
              !.soulPosition =
                  IF heap[TheSoul].isCollected
                    THEN @
                    ELSE << Soul_clampNumbers(
                                NumVec(VecAdd(heap[TheSoul].initialPosition,
                                              mv))) >>])

NextBounds == BoundsSetPosition \/ BoundsUpdate

SpecBounds == Init /\ [][NextBounds]_vars

---------------------------------------------------------------------------
(* Properties.                                                             *)

\* the objects in the idle list of the pool
Idle == { pool[i] : i \in 1..Len(pool) }

\* C1: after any sequence of acquire and release calls, the number of idle
\* objects plus the number of active objects equals the number of objects
\* the pool has constructed, and no object is both idle and active (the
\* idle list holds no object twice, and both hold only constructed objects)
C1_PoolRoundTrip ==
    /\ Len(pool) + Cardinality(activeObjects) = Cardinality(poolBuilt)
    /\ Cardinality(Idle) = Len(pool)
    /\ Idle \cap activeObjects = {}
    /\ Idle \cup activeObjects = poolBuilt

\* the pool has grown on a miss, holds an object that was released and an
\* object that is active, next to a Soul that was constructed outside it
C1_Witness ==
    /\ Cardinality(poolBuilt) > InitialPoolSize
    /\ Len(pool) >= 1
    /\ activeObjects # {}
    /\ Len(heap) > Cardinality(poolBuilt)

\* C2: while maxSouls is left unchanged, no operation of the SoulManager
\* takes the number of active souls from at most maxSouls to more than
\* maxSouls, whatever the spawn rate and the deltaTime of an update
C2_PopulationCap ==
    [][(maxSouls' = maxSouls /\ Len(activeSouls) <= maxSouls)
          => Len(activeSouls') <= maxSouls']_vars

\* the registry is full and not paused, and the spawn timer has run past
\* the spawn interval: an update asked for a spawn and the cap refused it
C2_Witness ==
    /\ Len(activeSouls) = maxSouls
    /\ maxSouls >= 2
    /\ ~isSpawningPaused
    /\ spawnTimer >= 2 * spawnInterval

\* the soul with this id is active and not collected
IsFree(id) ==
    MapHas(activeSouls, id) /\ ~heap[MapGet(activeSouls, id)].isCollected

\* C3: collectSoul(id) returns true exactly when the soul is active and not
\* yet collected, and then starts its collection; on a soul that is already
\* collecting and on an id that is not active it returns false and changes
\* nothing (flag and progress included); a second call returns false
C3_CollectSoulIdempotent ==
    \A id \in 0..MaxSoulIds :
        LET r  == SoulManager_collectSoul(CurS, id)
            r2 == SoulManager_collectSoul(r, id)
        IN  /\ IF IsFree(id)
                 THEN LET obj == MapGet(activeSouls, id)
                      IN  /\ r.ret = TRUE
                          /\ r.heap[obj].isCollected
                          /\ r.heap[obj].collectionAnimation = DblOne
                 ELSE /\ r.ret = FALSE
                      /\ [r EXCEPT !.ret = Null] = CurS
            /\ r2.ret = FALSE
            /\ [r2 EXCEPT !.ret = Null] = [r EXCEPT !.ret = Null]

\* a soul is collecting and its progress has partly decayed, next to a
\* soul that is active and not collected
C3_Witness ==
    /\ \E i \in 1..Len(activeSouls) :
           /\ heap[activeSouls[i].obj].isCollected
           /\ DblLess(DblZero, heap[activeSouls[i].obj].collectionAnimation)
           /\ DblLess(heap[activeSouls[i].obj].collectionAnimation, DblOne)
    /\ \E id \in 0..MaxSoulIds : IsFree(id)

\* C10: clearAllSouls leaves activeSouls empty and the spawn timer at 0,
\* and every soul that was active is in the idle list of the pool
\* afterwards and is not tracked as active by the pool
C10_ClearAllSoulsReturnsAll ==
    LET r == SoulManager_clearAllSouls(CurS)
    IN  /\ r.activeSouls = << >>
        /\ r.spawnTimer = 0
        /\ \A i \in 1..Len(activeSouls) :
               /\ \E j \in 1..Len(r.pool) : r.pool[j] = activeSouls[i].obj
               /\ activeSouls[i].obj \notin r.activeObjects

\* the square of the distance from the avatar to the soul object obj
AvatarDist2(obj) == Dist2(playerPosition, heap[obj].position)

\* the soul object obj is not collected, within skullCollisionRadius +
\* getCollisionRadius() of the avatar and within the broad-phase radius
Qualifies(obj) ==
    /\ ~heap[obj].isCollected
    /\ AvatarDist2(obj) <= (skullCollisionRadius + 5) * (skullCollisionRadius + 5)
    /\ AvatarDist2(obj) <= 50 * 50

\* C4: checkCollisionsOptimized collects exactly the active souls that are
\* not collected, within skullCollisionRadius + getCollisionRadius() of the
\* avatar and within the broad-phase radius 5.0; it returns each of them
\* once, all in the same call, and starts the collection of no other soul
C4_CollisionRule ==
    LET r == CollisionDetector_checkCollisionsOptimized(CurS)
        Q == { activeSouls[i].id :
                 i \in { j \in 1..Len(activeSouls) :
                            Qualifies(activeSouls[j].obj) } }
    IN  /\ { r.ret[i] : i \in 1..Len(r.ret) } = Q
        /\ Len(r.ret) = Cardinality(Q)
        /\ r.activeSouls = activeSouls
        /\ \A i \in 1..Len(activeSouls) :
               r.heap[activeSouls[i].obj].isCollected
                 = (heap[activeSouls[i].obj].isCollected
                      \/ activeSouls[i].id \in Q)

\* a check has collected a soul, and an active soul that is not collected
\* passes the narrow-phase test but lies beyond the broad-phase radius
C4_Witness ==
    /\ \E id \in 0..MaxSoulIds : events[id] = 1
    /\ \E i \in 1..Len(activeSouls) :
           /\ ~heap[activeSouls[i].obj].isCollected
           /\ NarrowHit(CurS, activeSouls[i].obj)
           /\ AvatarDist2(activeSouls[i].obj) > BroadPhaseRadius * BroadPhaseRadius

\* the states, with their outputs, that the next call of
\* GameEngine.update can produce
FrameResults ==
    UNION { { GameEngine_update(CurS, i[1], i[2], i[3], i[4], MvTotal(mv)) :
                mv \in [FreeActive(SoulManager_spawnStep(
                                       CurS, Min(i[1], MaxFrameTicks), i[4]))
                           -> FrameOffsets] } :
            i \in FrameTimes \X FrameMoving \X FramePlayers \X FramePoints }

\* C5: in 'playing', a frame raises score by exactly the number of souls
\* its collision check collected, and never lowers it
C5_ScoreAccounting ==
    currentState = "playing" =>
        \A r \in FrameResults :
            /\ r.score = score + Len(r.frame.collected)
            /\ r.score >= score
            /\ ~r.frame.checked => r.frame.collected = << >>

\* a game is on, and a next frame collects two souls at once and scores
\* two points
C5_Witness ==
    /\ currentState = "playing"
    /\ \E r \in FrameResults :
           /\ Len(r.frame.collected) = 2
           /\ r.score = score + 2

\* C6: in 'playing', timeRemaining is max(0, GAME_DURATION - gameTime)
\* after every frame; a frame never raises it, it stays within
\* 0..GAME_DURATION, and it is 0 once gameTime >= GAME_DURATION
C6_TimerMonotone ==
    currentState = "playing" =>
        /\ timeRemaining = Max(0, config.GAME_DURATION - gameTime)
        /\ \A r \in FrameResults :
               /\ r.timeRemaining = Max(0, config.GAME_DURATION - r.gameTime)
               /\ r.timeRemaining <= timeRemaining
               /\ r.timeRemaining >= 0
               /\ r.timeRemaining <= config.GAME_DURATION
               /\ r.gameTime >= config.GAME_DURATION => r.timeRemaining = 0

\* a frame has taken gameTime past GAME_DURATION, and timeRemaining is 0
C6_Witness ==
    /\ gameTime > config.GAME_DURATION
    /\ timeRemaining = 0
    /\ calls.endGame = 1

\* C7: since startGame endGame has been called at most once, and it has
\* been called exactly when the state is 'game-over'; the state is
\* 'playing' only while gameTime < GAME_DURATION and 'game-over' only once
\* gameTime >= GAME_DURATION; a frame in 'game-over' calls neither endGame
\* nor showGameOverUI
C7_GameOverOnce ==
    /\ calls.endGame <= 1
    /\ (currentState = "game-over") = (calls.endGame = 1)
    /\ currentState = "playing" => gameTime < config.GAME_DURATION
    /\ currentState = "game-over" => gameTime >= config.GAME_DURATION
    /\ currentState = "game-over" =>
           \A r \in FrameResults :
               /\ r.currentState = "game-over"
               /\ r.calls = calls
               /\ r.gameTime = gameTime

\* the game has ended, and the frames after it have taken a soul that was
\* collected during the game to the end of its collection and removed it
C7_Witness ==
    /\ currentState = "game-over"
    /\ calls.endGame = 1
    /\ score >= 1
    /\ activeSouls = << >>

\* C9: a soul id has at most one collision event; a frame emits an event
\* only for a soul its check collected, which is then collecting with full
\* progress and was not collected before the frame; a soul with an event
\* is not Free again, and the frame scores no more than its events
C9_OneEventPerActivation ==
    /\ \A id \in 0..MaxSoulIds :
           /\ events[id] <= 1
           /\ events[id] = 1 => ~IsFree(id)
    /\ \A r \in FrameResults :
           /\ \A id \in 0..MaxSoulIds :
                  /\ r.events[id] - events[id]
                       = IF \E i \in 1..Len(r.frame.collected) :
                               r.frame.collected[i] = id
                           THEN 1 ELSE 0
                  /\ r.events[id] > events[id] =>
                         /\ events[id] = 0
                         /\ MapHas(r.activeSouls, id)
                         /\ r.heap[MapGet(r.activeSouls, id)].isCollected
                         /\ r.heap[MapGet(r.activeSouls, id)].collectionAnimation
                               = DblOne
                         /\ MapHas(activeSouls, id) => IsFree(id)
           /\ r.score - score
                 <= Cardinality({ id \in 0..MaxSoulIds :
                                    r.events[id] > events[id] })

\* a game is on, and a soul that has its event is still active and within
\* reach of the avatar, with its progress partly decayed: frames after the
\* one that collected it have checked it again
C9_Witness ==
    /\ currentState = "playing"
    /\ \E i \in 1..Len(activeSouls) :
           /\ events[activeSouls[i].id] = 1
           /\ DblLess(DblZero, heap[activeSouls[i].obj].collectionAnimation)
           /\ DblLess(heap[activeSouls[i].obj].collectionAnimation, DblOne)
           /\ NarrowHit(CurS, activeSouls[i].obj)
           /\ AvatarDist2(activeSouls[i].obj)
                 <= BroadPhaseRadius * BroadPhaseRadius

\* the least n >= from with n * (deltaTime * 4.0) >= 1 for the deltaTime
\* of dt > 0 ticks, in exact arithmetic; sum is (from - 1) * (deltaTime * 4.0)
RECURSIVE CeilStepsFrom(_, _, _)
CeilStepsFrom(dt, sum, from) ==
    IF DblLeq(DblOne, DblAdd(sum, TimesFour(dt)))
      THEN from
      ELSE CeilStepsFrom(dt, DblAdd(sum, TimesFour(dt)), from + 1)

\* ceil(1 / (4 * deltaTime)) for the deltaTime of dt > 0 ticks
CeilSteps(dt) == CeilStepsFrom(dt, DblZero, 1)

C11_SpawnSoulRefuses ==
    \A p \in ManagerPoints :
        LET r  == SoulManager_spawnSoul(CurS, p)
            r2 == SoulManager_spawnSoul(r, p)
        IN  /\ (Len(activeSouls) >= maxSouls \/ isSpawningPaused) =>
                   /\ r.ret = NoObj
                   /\ [r EXCEPT !.ret = Null] = CurS
            /\ (maxSouls = 1 /\ ~isSpawningPaused /\ Len(activeSouls) <= 1) =>
                   /\ (activeSouls = << >>) = (r.ret # NoObj)
                   /\ r2.ret = NoObj
                   /\ Len(r2.activeSouls) = 1
                   /\ [r2 EXCEPT !.ret = Null] = [r EXCEPT !.ret = Null]

\* with maxSouls = 1 a soul has been spawned from the pool and is the one
\* active soul, and spawning is not paused: the next spawnSoul() is refused
C11_Witness ==
    /\ maxSouls = 1
    /\ ~isSpawningPaused
    /\ Len(activeSouls) = 1
    /\ activeSouls[1].obj \in activeObjects

C13_StartGameResets ==
    LET r == GameEngine_startGame(CurS)
    IN  /\ r.currentState = "playing"
        /\ r.score = 0
        /\ r.gameTime = 0
        /\ r.timeRemaining = config.GAME_DURATION
        /\ r.activeSouls = << >>
        /\ ~r.isSpawningPaused
        /\ r.spawnRate = config.SOUL_SPAWN_RATE
        /\ r.spawnInterval = IntervalOf(config.SOUL_SPAWN_RATE)
        /\ r.spawnTimer = 0
        /\ r.playerPosition = PlayerStart
        /\ GameEngine_restartGame(CurS) = r

\* a game has just been started after an earlier game in which a soul was
\* collected: the score is back at 0 and no soul is active
C13_Witness ==
    /\ currentState = "playing"
    /\ gameTime = 0
    /\ score = 0
    /\ activeSouls = << >>
    /\ calls = NoCalls
    /\ \E id \in 0..MaxSoulIds : events[id] = 1

\* C14: the state changes only along menu -> playing, playing ->
\* game-over, game-over -> playing and game-over -> menu, under any
\* sequence of frames and of startGame / endGame / restartGame calls
C14_TransitionsOnly ==
    [][currentState' # currentState =>
          << currentState, currentState' >> \in
              { << "menu", "playing" >>, << "playing", "game-over" >>,
                << "game-over", "playing" >>, << "game-over", "menu" >> }]_vars

\* C15: in 'menu' and in 'game-over' a frame changes neither score nor
\* gameTime nor timeRemaining, runs no collision check, emits no collision
\* event and starts the collection of no soul
C15_IdleFrames ==
    currentState \in { "menu", "game-over" } =>
        \A r \in FrameResults :
            /\ r.score = score
            /\ r.gameTime = gameTime
            /\ r.timeRemaining = timeRemaining
            /\ ~r.frame.checked
            /\ r.frame.collected = << >>
            /\ r.events = events
            /\ \A o \in 1..Len(heap) :
                   r.heap[o].isCollected => heap[o].isCollected

\* the game is over with a point scored, and an active soul that is not
\* collected has drifted within reach of the avatar: a collision check
\* would collect it
C15_Witness ==
    /\ currentState = "game-over"
    /\ score >= 1
    /\ \E i \in 1..Len(activeSouls) : Qualifies(activeSouls[i].obj)

\* C16: in 'menu' and in 'game-over' every frame (that does not start a
\* game) runs SoulManager.update(dt) on the active souls: each active soul
\* is afterwards as Soul.update(dt) leaves it, moved or decayed, and is
\* removed when its collection is complete
C16_SoulsKeepAnimating ==
    currentState \in { "menu", "game-over" } =>
        \A raw \in FrameTimes, p \in FramePoints :
            \A mv \in [FreeActive(CurS) -> FrameOffsets] :
                LET r  == GameEngine_update(CurS, raw, FALSE, playerPosition,
                                            p, MvTotal(mv))
                    dt == Min(raw, MaxFrameTicks)
                IN  \A i \in 1..Len(activeSouls) :
                        LET id  == activeSouls[i].id
                            obj == activeSouls[i].obj
                            u   == Soul_update(heap[obj], dt, MvTotal(mv)[obj])
                        IN  IF Soul_isCollectionComplete(u)
                              THEN ~MapHas(r.activeSouls, id)
                              ELSE /\ MapHas(r.activeSouls, id)
                                   /\ r.heap[obj] = u

\* the soul object o is active and collecting
IsCollecting(o) ==
    \E i \in 1..Len(activeSouls) :
        activeSouls[i].obj = o /\ heap[o].isCollected

\* the soul object o is not active and is in the idle list of the pool
IsReturned(o) ==
    /\ \A i \in 1..Len(activeSouls) : activeSouls[i].obj # o
    /\ o \in Idle

SquaredDistanceXZ(p) ==
    LET e == Min(2 * p.x.e, 2 * p.z.e)
    IN  Num(FALSE,
            BigAdd(BigShl(BigMul(p.x.m, p.x.m), 2 * p.x.e - e),
                   BigShl(BigMul(p.z.m, p.z.m), 2 * p.z.e - e)),
            e)

\* 9.0^2, and 9.0^2 * (1 + 2^-49): the square of a distance of less than
\* 9.0 * (1 + 2^-50)
NumMaxSquared == NumOf(81)
NumMaxSquaredRounded ==
    Num(FALSE, BigAdd(BigShl(BigOf(81), 49), BigOf(81)), -49)

\* y within [0.5, 6.0]
HeightInRange(p) == ~NumLess(p.y, NumMinY) /\ ~NumLess(NumMaxY, p.y)

ActiveIds == { activeSouls[i].id : i \in 1..Len(activeSouls) }

\* C19: no two active souls share an id; a soul that a step activates gets
\* an id no earlier activation of this manager had: every id given so far
\* is below nextSoulId, the new id is at least nextSoulId, and nextSoulId
\* never goes back
C19_IdsNeverReused ==
    /\ [](/\ Cardinality(ActiveIds) = Len(activeSouls)
          /\ \A i \in 1..Len(activeSouls) :
                 /\ activeSouls[i].id < nextSoulId
                 /\ heap[activeSouls[i].obj].id = activeSouls[i].id)
    /\ [][/\ \A id \in ActiveIds' \ ActiveIds : id >= nextSoulId
          /\ nextSoulId' >= nextSoulId]_vars

\* how often the object obj occurs in the idle list of the state s
IdleCount(s, obj) == Cardinality({ j \in 1..Len(s.pool) : s.pool[j] = obj })

\* C20: release(obj) of an object the pool does not track as active
\* changes nothing: the object is not reset, the idle list and the active
\* set are as before; a second release of an object changes nothing, and
\* the object is in the idle list once
C20_ReleaseUntracked ==
    \A obj \in 1..Len(heap) :
        LET r  == ObjectPool_release(CurS, obj)
            r2 == ObjectPool_release(r, obj)
        IN  /\ obj \notin activeObjects => r = CurS
            /\ obj \in activeObjects =>
                   /\ IdleCount(r, obj) = 1
                   /\ obj \notin r.activeObjects
                   /\ r.heap[obj] = Soul_reset(heap[obj])
            /\ r2 = r
            /\ IdleCount(r2, obj) <= 1

\* a Soul constructed outside the pool and an idle Soul of the pool are
\* both collecting (so a reset would show), next to an active object
C20_Witness ==
    /\ \E obj \in 1..Len(heap) :
           obj \notin poolBuilt /\ heap[obj].isCollected
    /\ \E obj \in Idle : heap[obj].isCollected
    /\ activeObjects # {}


\* the ids of the souls a collision check has to collect, in Map order: the
\* active souls that are not collected and within collision distance
DueIds(s) ==
    LET due == SelectSeq(s.activeSouls,
                   LAMBDA e : /\ ~s.heap[e.obj].isCollected
                              /\ NarrowHit(s, e.obj))
    IN  [i \in 1..Len(due) |-> due[i].id]

\* the number of entries of a sequence that equal x
CountOf(seq, x) == Cardinality({ i \in 1..Len(seq) : seq[i] = x })

\* C21: with a throwing callback registered, checkCollisionsOptimized
\* returns the ids of all souls within collision distance and collects
\* each, every registered callback is invoked once per collected soul, and
\* the GameEngine's callback scores each of them while playing
C21_CallbackThrows ==
    LET r == CollisionDetector_checkCollisionsOptimized(CurS)
    IN  CountOf(collisionCallbacks, "throws") > 0 =>
            /\ r.ret = DueIds(CurS)
            /\ \A i \in 1..Len(activeSouls) :
                   LET e == activeSouls[i]
                   IN  (~heap[e.obj].isCollected /\ NarrowHit(CurS, e.obj)) =>
                           /\ r.heap[e.obj].isCollected
                           /\ r.events[e.id] = events[e.id] + 1
            /\ r.callbackCalls
                   = callbackCalls + Len(collisionCallbacks) * Len(r.ret)
            /\ r.score = score
                   + (IF currentState = "playing"
                        THEN CountOf(collisionCallbacks, "handleSoulCollection")
                                 * Len(r.ret)
                        ELSE 0)
            /\ r.collisionCallbacks = collisionCallbacks

\* a check has collected two souls while a throwing callback was registered
\* ahead of the GameEngine's: both are scored
C21_Witness ==
    /\ currentState = "playing"
    /\ collisionCallbacks = << "throws", "handleSoulCollection" >>
    /\ score = 2
    /\ callbackCalls = 4
    /\ Len(activeSouls) = 2
    /\ \A i \in 1..Len(activeSouls) : heap[activeSouls[i].obj].isCollected


\* C22: the number of active souls is at most maxSouls in every reachable
\* state of the SoulManager, also right after setMaxSouls lowers the cap
C22_CapAlways == Len(activeSouls) <= maxSouls


\* the Soul instances in SoulManager.activeSouls
ActiveObjs == { activeSouls[i].obj : i \in 1..Len(activeSouls) }

\* C23: a soul is in activeSouls exactly when the pool tracks it as active,
\* and no soul of the pool's idle list is in activeSouls
C23_OneOwner ==
    /\ ActiveObjs = activeObjects
    /\ \A i \in 1..Len(pool) : pool[i] \notin ActiveObjs


\* C24: the spawn timer is 0 right after every spawn that update performs
\* and right after every pauseSpawning call
C24_TimerReset ==
    /\ \A dt \in FieldDts, p \in SpawnPoints :
           LET r == SoulManager_spawnStep(CurS, dt, p)
           IN  r.nextSoulId # nextSoulId => r.spawnTimer = 0
    /\ SoulManager_pauseSpawning(CurS).spawnTimer = 0


\* the state s with what a call returned set aside
Fields(s) == [s EXCEPT !.ret = Null]

\* the floors hold in s: maxSouls >= 1, spawnRate >= 0.1 with spawnInterval
\* = 1 / spawnRate, both field half-extents >= 1
Floors(s) ==
    /\ s.maxSouls >= 1
    /\ s.spawnRate >= 1
    /\ s.spawnInterval = IntervalOf(s.spawnRate)
    /\ s.fieldSize.x >= 10
    /\ s.fieldSize.z >= 10

\* C25: after setMaxSouls, setSpawnRate and setFieldSize with any
\* arguments, zero and negative ones included, maxSouls >= 1, spawnRate >=
\* 0.1 with spawnInterval = 1 / spawnRate, and both field half-extents >= 1;
\* each setter writes only its own fields: the souls, the pool and the rest
\* of the state are as before
C25_SettersClamp ==
    /\ Floors(CurS)
    /\ \A n \in CountArgs :
           LET r == SoulManager_setMaxSouls(CurS, n)
           IN  /\ Floors(r)
               /\ r.maxSouls = (IF n < 1 THEN 1 ELSE n)
               /\ Fields(r) = [CurS EXCEPT !.maxSouls = r.maxSouls]
    /\ \A n \in RateArgs :
           LET r == SoulManager_setSpawnRate(CurS, n)
           IN  /\ Floors(r)
               /\ r.spawnRate = (IF n < 1 THEN 1 ELSE n)
               /\ Fields(r) = [CurS EXCEPT !.spawnRate = r.spawnRate,
                                           !.spawnInterval = r.spawnInterval]
    /\ \A x \in SizeArgs, z \in SizeArgs :
           LET r == SoulManager_setFieldSize(CurS, x, z)
           IN  /\ Floors(r)
               /\ r.fieldSize = [x |-> IF x < 10 THEN 10 ELSE x,
                                 z |-> IF z < 10 THEN 10 ELSE z]
               /\ Fields(r) = [CurS EXCEPT !.fieldSize = r.fieldSize]

\* the setters have been called with arguments below the floors while a
\* soul was active and another collecting: every field is at its floor
C25_Witness ==
    /\ maxSouls = 1
    /\ spawnRate = 1
    /\ spawnInterval = 10 * TicksPerSecond
    /\ fieldSize = [x |-> 10, z |-> 10]
    /\ \E i, j \in 1..Len(activeSouls) :
           /\ heap[activeSouls[i].obj].isCollected
           /\ ~heap[activeSouls[j].obj].isCollected


---------------------------------------------------------------------------
(* The retry wrapper *)

\* the last attempt of the call failed with a client or validation class
\* error: submitScore rejected its input, or the response was 400 or 404
ClientFailure(a) ==
    /\ a.state # "idle"
    /\ a.threw
    /\ \/ a.operation = "submitScore" /\ a.input # "valid"
       \/ a.outcome \in { "HTTP 400", "HTTP 404" }

\* C26: after an attempt has failed with a client or validation class error
\* (a 400 or 404 response, an input that submitScore rejects) the call is
\* rejected at once, with an error marked as not retryable: there is no
\* wait and no further attempt.
C26_NoRetryOfClientErrors ==
    ClientFailure(api) =>
        /\ api.state = "rejected"
        /\ api.lastError.retryable = FALSE

\* the last error of a call, from what its last attempt threw
LastErrorOf(a) ==
    APIService_handleNetworkError(
        ApiOperation(a.operation, a.input, a.outcome).error)

\* what holds of a call of retryOperation in every state
RetryBounded(a) ==
    /\ a.invoked <= a.maxRetries + 1
    /\ a.invoked = a.attempt + (IF a.state = "attempting" THEN 0 ELSE 1)
    /\ a.state = "resolved" => ~a.threw
    /\ a.state = "rejected" => a.threw /\ a.lastError = LastErrorOf(a)
    /\ a.state = "waiting" =>
           LET k == a.attempt + 1
               limit == a.baseDelay * Pow2(k - 1)
           IN  /\ a.delay <= limit
               /\ a.delay <= MaxDelay

\* C27: a call of retryOperation invokes the operation at most
\* maxRetries + 1 times, resolves at the first attempt that succeeds and
\* rejects with the last error, makes no attempt after it has settled, waits
\* before retry k at most min(baseDelay * 2^(k-1), maxDelay), and settles
\* when every attempt settles.
C27_RetryTerminates ==
    /\ [](api.state # "idle" => RetryBounded(api))
    /\ [][api.state \in { "resolved", "rejected" } => api'.invoked = 0]_vars
    /\ (api.state = "attempting") ~> (api.state \in { "resolved", "rejected" })

\* a third retry is awaited with the delay that maxDelay caps
C27_Witness ==
    /\ api.state = "waiting"
    /\ api.attempt = 2
    /\ api.baseDelay * Pow2(api.attempt) > MaxDelay
    /\ api.delay > (MaxDelay * 9) \div 10


---------------------------------------------------------------------------
(* The leaderboard flow *)

RECURSIVE Lowest(_)
Lowest(board) ==
    IF Len(board) = 1
      THEN Head(board)
      ELSE Min(Head(board), Lowest(Tail(board)))

\* the score makes the top 10 of the board: a place is free, or it is
\* strictly greater than the lowest score listed
MakesTop10(playerScore, board) ==
    Len(board) < 10 \/ playerScore > Lowest(board)

\* the places of an event in a log
Places(log, e) == { i \in 1 .. Len(log) : log[i] = e }

\* C28: in a flow whose submitScore fetched the board, when the score does
\* not make the top 10 (the board has 10 entries and the score is not
\* strictly greater than the lowest listed) no POST is sent and the
\* leaderboard is shown; when it does, a POST is sent before the leaderboard
\* is shown.
C28_PostOnlyWhenQualified ==
    LET l == leaderboard
    IN  l.fetched =>
          IF MakesTop10(l.score, l.topScores)
            THEN /\ Places(l.log, "POST") # {}
                 /\ \A i \in Places(l.log, "showLeaderboardModal") :
                      \E j \in Places(l.log, "POST") : j < i
            ELSE /\ Places(l.log, "POST") = {}
                 /\ l.log[Len(l.log)] = "showLeaderboardModal"

\* a score equal to the lowest of a full board: the board was fetched and
\* shown, nothing was posted
C28_Witness ==
    /\ leaderboard.fetched
    /\ Len(leaderboard.topScores) = 10
    /\ leaderboard.score = leaderboard.topScores[10]
    /\ leaderboard.score > 0
    /\ leaderboard.log = << "GET", "showLeaderboardModal" >>


---------------------------------------------------------------------------
(* The order of the steps of a 'playing' frame *)

\* the ids a frame result has collected
CollectedIn(r) == { r.frame.collected[i] : i \in 1 .. Len(r.frame.collected) }

\* in the result r, the soul object obj is within collision distance of the
\* avatar, both where the frame has left them
TouchesIn(r, obj) ==
    /\ Dist2(r.playerPosition, r.heap[obj].position)
         <= (r.skullCollisionRadius + Soul_getCollisionRadius)
              * (r.skullCollisionRadius + Soul_getCollisionRadius)
    /\ Dist2(r.playerPosition, r.heap[obj].position)
         <= BroadPhaseRadius * BroadPhaseRadius

\* C29: a 'playing' frame first advances gameTime and timeRemaining; if time
\* is up it ends the game and does nothing else: no soul is spawned, moved,
\* animated, removed or collected, the avatar stays, the score stays.
\* Otherwise it moves the avatar, then updates the souls, then checks the
\* collisions, then scores: the souls it collects are those that touch the
\* avatar where the move and the soul update have left them, their
\* collection animation has not yet advanced, no soul that is left
\* uncollected touches the avatar, and the score grows by their number.
C29_FrameOrder ==
    currentState = "playing" =>
        \A r \in FrameResults :
            IF r.gameTime >= config.GAME_DURATION
              THEN /\ r.currentState = "game-over"
                   /\ r.timeRemaining = 0
                   /\ ~r.frame.checked
                   /\ r.score = score
                   /\ r.activeSouls = activeSouls
                   /\ r.heap = heap
                   /\ r.events = events
                   /\ r.spawnTimer = spawnTimer
                   /\ r.playerPosition = playerPosition
              ELSE /\ r.currentState = "playing"
                   /\ r.gameTime = gameTime + r.deltaTime
                   /\ r.frame.checked
                   /\ r.score = score + Len(r.frame.collected)
                   /\ CollectedIn(r)
                        \subseteq { r.activeSouls[i].id :
                                      i \in 1 .. Len(r.activeSouls) }
                   /\ \A i \in 1 .. Len(r.activeSouls) :
                        LET obj == r.activeSouls[i].obj
                        IN  IF r.activeSouls[i].id \in CollectedIn(r)
                              THEN /\ r.heap[obj].isCollected
                                   /\ r.heap[obj].collectionAnimation = DblOne
                                   /\ TouchesIn(r, obj)
                              ELSE ~r.heap[obj].isCollected
                                     => ~TouchesIn(r, obj)

\* a game is on, and a next frame in which time has passed spawns a soul
\* and collects it
C29_Witness ==
    /\ currentState = "playing"
    /\ \E r \in FrameResults :
         /\ r.deltaTime > 0
         /\ r.currentState = "playing"
         /\ \E id \in CollectedIn(r) :
              id \notin { activeSouls[i].id : i \in 1 .. Len(activeSouls) }


---------------------------------------------------------------------------
(* The spawn cadence *)

\* C30: a call of SoulManager.update spawns at most one soul, and when it
\* spawns one after an earlier update has spawned one, with the spawn rate
\* unchanged in between, the deltaTime that update was given while spawning
\* was not paused, from after the earlier spawn up to and with this call,
\* is at least spawnInterval.
C30_SpawnCadence ==
    /\ cadence.spawned <= 1
    /\ cadence.spawned = 1 /\ cadence.paired => cadence.gap >= spawnInterval

\* an update has spawned a soul just as the interval, of more than one
\* frame, had passed since the spawn before it, while a collected soul is
\* still active
C30_Witness ==
    /\ cadence.spawned = 1
    /\ cadence.paired
    /\ cadence.gap = spawnInterval
    /\ spawnInterval > 4
    /\ \E i \in 1 .. Len(activeSouls) : heap[activeSouls[i].obj].isCollected


---------------------------------------------------------------------------
(* The array-pool SoulManager while spawning is paused *)

\* C31: in the array-pool SoulManager, from pauseSpawning() until
\* resumeSpawning() (that is, while spawnRate is 0: pauseSpawning sets it to
\* 0 and only resumeSpawning and setSpawnRate take it away from 0) no step
\* spawns a soul; the steps taken meanwhile are update(dt) calls, collections
\* and frames of 'game-over'.
C31_PausedSpawnsNothing ==
    [][arrayManager.spawnRate = 0 /\ arrayManager'.spawnRate = 0
          => arrayManager'.nextSoulId = arrayManager.nextSoulId]_vars


---------------------------------------------------------------------------
(* The spawn height band and the spawn positions *)

\* C32: the stored band has spawnHeight.min >= 0 and
\* spawnHeight.max >= spawnHeight.min + 0.5, whatever numbers
\* setSpawnHeightRange was given.
C32_HeightBand ==
    /\ spawnHeight.min >= 0
    /\ spawnHeight.max >= spawnHeight.min + 5

\* C33: every active soul that is not collected lies within the bounds that
\* Soul.update enforces (at most 9.0 from the field centre in XZ, y within
\* [0.5, 6.0]), also between its activation by spawnSoul() and its first
\* update.
C33_SpawnedWithinBounds ==
    \A i \in 1 .. Len(activeSouls) :
        LET soul == heap[activeSouls[i].obj]
        IN  ~soul.isCollected =>
              /\ soul.position.x * soul.position.x
                   + soul.position.z * soul.position.z
                   <= SoulMaxDistance * SoulMaxDistance
              /\ soul.position.y >= SoulMinY
              /\ soul.position.y <= SoulMaxY


---------------------------------------------------------------------------
(* The configured collision radius *)

\* C34: the collision check collects a soul that is active and not
\* collected exactly when its distance to the avatar is at most
\* config.COLLISION_RADIUS plus the soul's collision radius.
C34_ConfiguredRadiusUsed ==
    \A o \in FreeActive(CurS) :
        CollisionDetector_checkCollisionsOptimized(CurS).heap[o].isCollected
          <=> Dist2(playerPosition, heap[o].position)
                <= (config.COLLISION_RADIUS + Soul_getCollisionRadius)
                     * (config.COLLISION_RADIUS + Soul_getCollisionRadius)


---------------------------------------------------------------------------
(* Bonus time *)

\* C35: a frame of 'playing' that follows addBonusTime(b), b > 0, leaves
\* timeRemaining b higher than the same frame without the bonus leaves it,
\* and does not end the game before gameTime reaches GAME_DURATION + b.
C35_BonusTimeLasts ==
    currentState = "playing" =>
      \A b \in BonusTimes, raw \in FrameTimes, pl \in GamePlayers,
         p \in GamePoints :
        \E plain \in { GameEngine_update(CurS, raw, FALSE, pl, p,
                                         MvTotal(<< >>)) },
           bonus \in { GameEngine_update(GameEngine_addBonusTime(CurS, b),
                                         raw, FALSE, pl, p, MvTotal(<< >>)) } :
          /\ plain.currentState = "playing"
               => bonus.timeRemaining = plain.timeRemaining + b
          /\ bonus.gameTime < config.GAME_DURATION + b
               => bonus.currentState = "playing"


---------------------------------------------------------------------------
(* The game-over dialog *)

\* C36: in 'game-over', showGameOverUI has been called exactly once since
\* the game was started: the transition delivered the final state once.
C36_GameOverShownOnce ==
    currentState = "game-over" => calls.showGameOverUI = 1


---------------------------------------------------------------------------
(* The two collision checks *)

\* C37: while skullCollisionRadius plus the soul collision radius is at most
\* the broad-phase radius, checkCollisions and checkCollisionsOptimized,
\* run on the same state, return the same ids and leave the same state: the
\* same souls collected, the same events emitted, the same callbacks run.
C37_OptimizedEquivalent ==
    skullCollisionRadius + Soul_getCollisionRadius <= BroadPhaseRadius =>
        CollisionDetector_checkCollisions(CurS)
            = CollisionDetector_checkCollisionsOptimized(CurS)

\* the radii are within the broad phase, one free soul is in contact with
\* the avatar and is collected by the check, another is beyond the broad
\* phase
C37_Witness ==
    /\ skullCollisionRadius + Soul_getCollisionRadius <= BroadPhaseRadius
    /\ CollisionDetector_checkCollisions(CurS).ret # << >>
    /\ \E o \in FreeActive(CurS) :
           Dist2(playerPosition, heap[o].position)
               > BroadPhaseRadius * BroadPhaseRadius


---------------------------------------------------------------------------
(* The display-refresh timer *)

\* C38: at most one interval of the engine is installed, and it is the one
\* gameTimer holds; a tick of it changes neither score, gameTime,
\* timeRemaining nor the state, and forwards timeRemaining to the UI only
\* in 'playing'.
C38_OneTimer ==
    /\ intervals <= 1
    /\ gameTimer <=> intervals = 1
    /\ \E r \in { GameEngine_updateTimerDisplay(CurS) } :
          /\ r.score = score
          /\ r.gameTime = gameTime
          /\ r.timeRemaining = timeRemaining
          /\ r.currentState = currentState
          /\ r.intervals = intervals
          /\ r.timerDisplay # timerDisplay
               => currentState = "playing" /\ r.timerDisplay = timeRemaining

\* an interval is installed in 'playing', a tick of it has forwarded
\* timeRemaining, and frames have since lowered timeRemaining and collected
\* a soul
C38_Witness ==
    /\ intervals = 1
    /\ currentState = "playing"
    /\ timerDisplay # NoDisplay
    /\ timerDisplay > timeRemaining
    /\ score > 0


---------------------------------------------------------------------------
(* One leaderboard flow at a time *)

\* C39: while a leaderboard flow is in progress (currentPlayerData is set:
\* handleGameEnd has stored the score and neither handleLeaderboardClose
\* nor handleNameCancellation has ended the flow), isProcessing is true, so
\* that handleGameEnd is ignored.
C39_OneFlowAtATime ==
    leaderboard.currentPlayerData # << >> => leaderboard.isProcessing


---------------------------------------------------------------------------
(* release with a reset callback that throws *)

\* C40: release(obj) on a tracked object whose reset callback throws does
\* not propagate the exception, and leaves obj in exactly one of the idle
\* list and the active set.
C40_ReleaseKeepsInstance ==
    \A obj \in activeObjects, afterReset \in BOOLEAN :
        \E r \in { ObjectPool_release_Throwing(CurS, obj, afterReset) } :
            /\ r.ret # Thrown
            /\ (obj \in r.activeObjects)
                 # (\E i \in 1..Len(r.pool) : r.pool[i] = obj)

===========================================================================
